---- MODULE Spec2Model ----
(***************************************************************************)
(* A model of the AI feedback analyzer backend (backend/app).              *)
(*                                                                         *)
(*   SpecSchema  FeedbackCreate's text validation, applied to one body     *)
(*   SpecAI      OpenRouterClient.analyze_feedback, one gateway call at a  *)
(*               time, over any model list and any pattern of replies      *)
(*   Spec        the feedback routes over storage, one handler per action  *)
(*   SpecList    GET /api/feedback/ over any storage state                 *)
(*                                                                         *)
(* Strings the program trims or measures are kept as run-length encoded    *)
(* sequences of runs [ch, n]: "  xxx" is <<[ch |-> " ", n |-> 2],          *)
(* [ch |-> "x", n |-> 3]>>.  Identifiers the program only compares are     *)
(* TLA+ strings.  Confidences are hundredths: 95 stands for 0.95.          *)
(***************************************************************************)
EXTENDS Integers, Sequences, FiniteSets, TLC

VARIABLES
    arg, ret,                 \* a pure function's argument and its result
    models, gateway,          \* analyze_feedback: the model list, the gateway's replies
    pos, pc,                  \* analyze_feedback: loop index, control point
    calls, gatherExc,         \* gateway calls issued so far; the pending gather's exception
    last_error, result,       \* analyze_feedback: last_error, and how it finished
    db, clock, hashSeed,      \* storage rows by id; storage time; the process's hash seed
    gwCalls, resp,            \* the last request: gateway calls it issued, its response
    handler                   \* a handler between two awaits: its position and locals

vars == <<arg, ret, models, gateway, pos, pc, calls, gatherExc, last_error,
          result, db, clock, hashSeed, gwCalls, resp, handler>>

pureVars == <<arg, ret>>
aiVars == <<models, gateway, pos, pc, calls, gatherExc, last_error, result>>
apiVars == <<db, clock, hashSeed, gwCalls, resp, handler>>

None == [kind |-> "none"]

-----------------------------------------------------------------------------
(* Strings                                                                 *)

Whitespace == {" ", "\n"}

Rep(c, n) == IF n <= 0 THEN <<>> ELSE <<[ch |-> c, n |-> n]>>

Cat(a, b) ==
    IF a = <<>> THEN b
    ELSE IF b = <<>> THEN a
    ELSE IF a[Len(a)].ch = b[1].ch
         THEN SubSeq(a, 1, Len(a) - 1)
              \o <<[ch |-> b[1].ch, n |-> a[Len(a)].n + b[1].n]>>
              \o Tail(b)
         ELSE a \o b

RECURSIVE StrLen(_)
StrLen(s) == IF s = <<>> THEN 0 ELSE s[1].n + StrLen(Tail(s))

RECURSIVE LStrip(_)
LStrip(s) ==
    IF s = <<>> THEN s
    ELSE IF s[1].ch \in Whitespace THEN LStrip(Tail(s)) ELSE s

RECURSIVE RStrip(_)
RStrip(s) ==
    IF s = <<>> THEN s
    ELSE IF s[Len(s)].ch \in Whitespace THEN RStrip(SubSeq(s, 1, Len(s) - 1))
    ELSE s

\* str.strip()
strip(s) == RStrip(LStrip(s))

-----------------------------------------------------------------------------
(* Request schemas (models/schemas.py)                                     *)

MaxTextLen == 5000
MinTextLen == 1

Accepted(v) == [ok |-> TRUE, value |-> v]
Rejected(why) == [ok |-> FALSE, why |-> why]

\* FeedbackCreate.validate_text: the after-validator of the field
validate_text(v) ==
    IF strip(v) = <<>>
    THEN Rejected("Feedback text cannot be empty")
    ELSE Accepted(strip(v))

\* FeedbackCreate.text: the Field constraints are checked on the value as
\* sent, then the after-validator runs
FeedbackCreate_text(v) ==
    IF StrLen(v) < MinTextLen THEN Rejected("string_too_short")
    ELSE IF StrLen(v) > MaxTextLen THEN Rejected("string_too_long")
    ELSE validate_text(v)

-----------------------------------------------------------------------------
(* SpecSchema: one request body's text through FeedbackCreate              *)

MaxPad == 2
MaxSmallLen == 3
Margin == 2

CoreLens == (0 .. MaxSmallLen) \cup ((MaxTextLen - Margin) .. (MaxTextLen + Margin))

\* lead blanks, a core of c characters that starts and ends with a letter
\* (with a blank inside when gap is set), trail blanks
MkText(lead, c, gap, trail) ==
    LET core == IF gap /\ c >= 3
                THEN Cat(Rep("x", 1), Cat(Rep(" ", 1), Rep("x", c - 2)))
                ELSE Rep("x", c)
    IN Cat(Rep(" ", lead), Cat(core, Rep("\n", trail)))

SchemaTexts ==
    { MkText(l, c, g, t) : l \in 0 .. MaxPad, c \in CoreLens,
                           g \in BOOLEAN, t \in 0 .. MaxPad }

Pending == [st |-> "pending"]

AIIdle ==
    /\ models = <<>>
    /\ gateway = <<>>
    /\ pos = 1
    /\ pc = "idle"
    /\ calls = <<>>
    /\ gatherExc = None
    /\ last_error = None
    /\ result = None

APIIdle ==
    /\ db = <<>>
    /\ clock = 0
    /\ hashSeed = 0
    /\ gwCalls = 0
    /\ resp = [op |-> "none", status |-> 0]
    /\ handler = None

InitSchema ==
    /\ arg \in SchemaTexts
    /\ ret = Pending
    /\ AIIdle
    /\ APIIdle

\* POST /analyze's body validation, on the text alone
ValidateBody ==
    /\ ret = Pending
    /\ ret' = [st |-> "done", out |-> FeedbackCreate_text(arg)]
    /\ UNCHANGED <<arg, aiVars, apiVars>>

NextSchema == ValidateBody

SpecSchema == InitSchema /\ [][NextSchema]_vars

\* C4: feedback creation accepts a text exactly when its trimmed length is
\* between 1 and 5000 (storing the trimmed text), and rejects it exactly when
\* the trimmed text is empty or longer than 5000.
C4_AcceptIffTrimmedInRange ==
    ret.st = "done" =>
        LET n == StrLen(strip(arg))
        IN /\ ret.out.ok <=> (n >= 1 /\ n <= 5000)
           /\ ret.out.ok => ret.out.value = strip(arg)
           /\ ~ret.out.ok <=> (n = 0 \/ n > 5000)

-----------------------------------------------------------------------------
(* The gateway's replies and the client's handling of one call             *)
(* (services/ai_service.py)                                                *)

\* A short literal as a string of single-character runs.
RECURSIVE Lit(_)
Lit(cs) == IF cs = <<>> THEN <<>> ELSE Cat(Rep(cs[1], 1), Lit(Tail(cs)))

Sentiments == {"positive", "neutral", "negative"}

MinConfidence == 0
MaxConfidence == 100
MinCategoryLen == 1
MaxCategoryLen == 100

Ok(v) == [ok |-> TRUE, value |-> v]
Err(type, text) == [ok |-> FALSE, err |-> [kind |-> "error", type |-> type, text |-> text]]

AIServiceError(text) == Err("AIServiceError", text)

StatusText(code) ==
    CASE code = 429 -> "429"
      [] code = 401 -> "401"
      [] code = 500 -> "500"
      [] code = 503 -> "503"
      [] OTHER -> "status"

\* A JSON object is [t |-> "object", fields |-> a record]; anything else that
\* parses (an array, a number, null) is [t |-> "array"].
JsonObject(fields) == [t |-> "object", fields |-> fields]
JsonArray == [t |-> "array"]

HasField(v, k) == v.t = "object" /\ k \in DOMAIN v.fields

ConfidenceOk(v) ==
    /\ HasField(v, "confidence")
    /\ v.fields.confidence >= MinConfidence
    /\ v.fields.confidence <= MaxConfidence

\* A mutant: the sentiment is not checked against the enum.
AnalysisResult_valid_AnySentiment(v) ==
    /\ HasField(v, "sentiment")
    /\ ConfidenceOk(v)
    /\ HasField(v, "reasoning")

\* AnalysisResult.model_validate
AnalysisResult_valid(v) ==
    /\ HasField(v, "sentiment")
    /\ v.fields.sentiment \in Sentiments
    /\ ConfidenceOk(v)
    /\ HasField(v, "reasoning")

\* CategoryResult.model_validate
CategoryResult_valid(v) ==
    /\ HasField(v, "category")
    /\ StrLen(v.fields.category) >= MinCategoryLen
    /\ StrLen(v.fields.category) <= MaxCategoryLen
    /\ ConfidenceOk(v)
    /\ HasField(v, "reasoning")

\* _parse_json_response, on a content whose parse is given: "json" parses at
\* some stage to content.value, "garbage" at none.
_parse_json_response(content) ==
    IF content.form = "json"
    THEN Ok(content.value)
    ELSE AIServiceError(<<"Invalid JSON response from AI: ", "content[:200]", "...">>)

\* _make_request, from the gateway's reply to the POST on
_make_request(reply) ==
    CASE reply.kind = "http" ->
           IF reply.status = 429
           THEN AIServiceError(<<"Rate limit exceeded. Please try again later.">>)
           ELSE IF reply.status = 401
           THEN AIServiceError(<<"Invalid API key">>)
           ELSE AIServiceError(<<"AI service error: ", StatusText(reply.status)>>)
      [] reply.kind = "network" ->
           AIServiceError(<<"Network error: ", reply.detail>>)
      [] reply.kind = "nochoices" ->
           AIServiceError(<<"Invalid response from AI service">>)
      [] reply.kind = "nokey" ->
           Err("KeyError", <<"'message'">>)
      [] reply.kind = "nocontent" ->
           Err("KeyError", <<"'content'">>)
      [] reply.kind = "nullcontent" ->
           Err("TypeError", <<"the JSON object must be str, bytes or bytearray, not NoneType">>)
      [] OTHER -> _parse_json_response(reply.content)

_analyze_sentiment(reply) ==
    LET r == _make_request(reply)
    IN IF ~r.ok THEN r
       ELSE IF ~AnalysisResult_valid(r.value)
       THEN Err("ValidationError", <<"validation error for AnalysisResult">>)
       ELSE r

_categorize_feedback(reply) ==
    LET r == _make_request(reply)
    IN IF ~r.ok THEN r
       ELSE IF ~CategoryResult_valid(r.value)
       THEN Err("ValidationError", <<"validation error for CategoryResult">>)
       ELSE r

\* what one gateway call of the given kind comes to
CallOutcome(kind, reply) ==
    IF kind = "sentiment" THEN _analyze_sentiment(reply) ELSE _categorize_feedback(reply)

\* the dict analyze_feedback returns
Combined(sentiment_result, category_result, model) ==
    [sentiment |-> sentiment_result.fields.sentiment,
     sentiment_confidence |-> sentiment_result.fields.confidence,
     category |-> category_result.fields.category,
     category_confidence |-> category_result.fields.confidence,
     model_used |-> model]

\* A mutant: the last model's error is raised as it is.
AllModelsFailed_Reraised(e) == [ok |-> FALSE, err |-> e]

\* lines 64-66
AllModelsFailed(e) ==
    AIServiceError(<<"All models failed. Last error: ">> \o e.text)

\* replies
HttpReply(code) == [kind |-> "http", status |-> code]
NetworkReply == [kind |-> "network", detail |-> "timed out"]
NoChoicesReply == [kind |-> "nochoices"]
NoKeyReply == [kind |-> "nokey"]
NoContentReply == [kind |-> "nocontent"]
NullContentReply == [kind |-> "nullcontent"]
GarbageReply == [kind |-> "content", content |-> [form |-> "garbage"]]
JsonReply(v) == [kind |-> "content", content |-> [form |-> "json", value |-> v]]

SentimentJson(s, c) ==
    JsonObject([sentiment |-> s, confidence |-> c, reasoning |-> "because"])
CategoryJson(cat, c) ==
    JsonObject([category |-> cat, confidence |-> c, reasoning |-> "because"])

-----------------------------------------------------------------------------
(* SpecAI: OpenRouterClient.analyze_feedback (services/ai_service.py 30-67) *)
(* over a model list and a gateway whose reply to each call of each         *)
(* position of the list is fixed in advance.  Each attempt creates the two  *)
(* tasks and awaits asyncio.gather: gather hands over the first exception   *)
(* as soon as one task fails, and the other task keeps running.             *)

MaxModels == 2

ModelIds == {"qwen/qwen3-235b-a22b-07-25:free", "openai/gpt-3.5-turbo"}

\* the list the source ships
ShippedModels == <<"qwen/qwen3-235b-a22b-07-25:free">>

ModelLists == UNION { [1 .. n -> ModelIds] : n \in 0 .. MaxModels }

AISentimentReplies ==
    { JsonReply(SentimentJson("positive", 95)),
      JsonReply(SentimentJson("negative", 85)),
      JsonReply(SentimentJson("mixed", 50)),
      HttpReply(429) }

AICategoryReplies ==
    { JsonReply(CategoryJson(Lit(<<"U", "X">>), 88)),
      JsonReply(CategoryJson(Lit(<<"S", "h", "i", "p">>), 75)),
      NetworkReply }

GatewayPatterns(n) ==
    [1 .. n -> [sentiment : AISentimentReplies, category : AICategoryReplies]]

InitAI ==
    /\ models \in ModelLists
    /\ gateway \in GatewayPatterns(Len(models))
    /\ pos = 1
    /\ pc = "loop"
    /\ calls = <<>>
    /\ gatherExc = None
    /\ last_error = None
    /\ result = [kind |-> "running"]
    /\ arg = None
    /\ ret = Pending
    /\ APIIdle

Call(p, kind) ==
    [pos |-> p, model |-> models[p], kind |-> kind, st |-> "inflight", out |-> None]

\* lines 39-49: the loop takes the next model, creates both tasks (each runs
\* up to its POST) and awaits gather
StartAttempt ==
    /\ pc = "loop"
    /\ pos <= Len(models)
    /\ calls' = calls \o <<Call(pos, "sentiment"), Call(pos, "category")>>
    /\ gatherExc' = None
    /\ pc' = "gather"
    /\ UNCHANGED <<models, gateway, pos, last_error, result, pureVars, apiVars>>

\* the for loop runs out of models: the function ends without a return
LoopEnds ==
    /\ pc = "loop"
    /\ pos > Len(models)
    /\ result' = [kind |-> "return_none"]
    /\ pc' = "done"
    /\ UNCHANGED <<models, gateway, pos, calls, gatherExc, last_error, pureVars, apiVars>>

\* one task finishes: the gateway answers its POST and _analyze_sentiment or
\* _categorize_feedback returns or raises.  The first failure among the two
\* tasks of the pending gather becomes the gather's exception.
Complete(k) ==
    /\ calls[k].st = "inflight"
    /\ LET out == CallOutcome(calls[k].kind, gateway[calls[k].pos][calls[k].kind])
       IN /\ calls' = [calls EXCEPT ![k].st = IF out.ok THEN "ok" ELSE "failed",
                                    ![k].out = out]
          /\ gatherExc' =
                IF ~out.ok /\ pc = "gather" /\ calls[k].pos = pos /\ gatherExc = None
                THEN out.err
                ELSE gatherExc
    /\ UNCHANGED <<models, gateway, pos, pc, last_error, result, pureVars, apiVars>>

CallOf(p, kind) == CHOOSE k \in 1 .. Len(calls) : calls[k].pos = p /\ calls[k].kind = kind

\* lines 49-59: both tasks returned, gather returns both results
GatherReturns ==
    /\ pc = "gather"
    /\ calls[CallOf(pos, "sentiment")].st = "ok"
    /\ calls[CallOf(pos, "category")].st = "ok"
    /\ result' = [kind |-> "return",
                  value |-> Combined(calls[CallOf(pos, "sentiment")].out.value,
                                     calls[CallOf(pos, "category")].out.value,
                                     models[pos])]
    /\ pc' = "done"
    /\ UNCHANGED <<models, gateway, pos, calls, gatherExc, last_error, pureVars, apiVars>>

\* line 63: is this the last model?
IsLastModel(ms, p) == ms[p] = ms[Len(ms)]

\* lines 60-67: gather raised
ExceptHandler ==
    /\ pc = "gather"
    /\ gatherExc # None
    /\ last_error' = gatherExc
    /\ gatherExc' = None
    /\ IF IsLastModel(models, pos)
       THEN /\ result' = [kind |-> "raise", error |-> AllModelsFailed(gatherExc).err]
            /\ pc' = "done"
            /\ pos' = pos
       ELSE /\ pos' = pos + 1
            /\ pc' = "loop"
            /\ result' = result
    /\ UNCHANGED <<models, gateway, calls, pureVars, apiVars>>

NextAI ==
    \/ StartAttempt
    \/ LoopEnds
    \/ \E k \in 1 .. Len(calls) : Complete(k)
    \/ GatherReturns
    \/ ExceptHandler

SpecAI == InitAI /\ [][NextAI]_vars

\* the attempt at position p succeeds: both of its calls do
AttemptSucceeds(p) ==
    /\ _analyze_sentiment(gateway[p].sentiment).ok
    /\ _categorize_feedback(gateway[p].category).ok

Contains(text, part) == \E i \in 1 .. Len(text) : text[i] = part

Embeds(text, inner) ==
    \E i \in 0 .. (Len(text) - Len(inner)) : SubSeq(text, i + 1, i + Len(inner)) = inner

\* calls are issued in list order, a sentiment and a category call per position
CallsInListOrder ==
    \A k \in 1 .. Len(calls) :
        /\ calls[k].pos = (k + 1) \div 2
        /\ calls[k].model = models[calls[k].pos]
        /\ calls[k].kind = IF k % 2 = 1 THEN "sentiment" ELSE "category"

\* C1: for any model list and any pattern of gateway successes and failures,
\* the models are attempted in list order, and analyze_feedback returns the
\* combined result of the first model whose two calls both succeed, with
\* model_used that model's identifier; no model after it is ever called.
C1_ReturnsFirstSuccess ==
    /\ CallsInListOrder
    /\ \A p \in 1 .. Len(models) :
         (AttemptSucceeds(p) /\ \A q \in 1 .. (p - 1) : ~AttemptSucceeds(q)) =>
            /\ \A k \in 1 .. Len(calls) : calls[k].pos <= p
            /\ pc = "done" =>
                 /\ result.kind = "return"
                 /\ result.value =
                      Combined(gateway[p].sentiment.content.value,
                               gateway[p].category.content.value, models[p])

\* C2: if the attempt fails for every model of the list, analyze_feedback
\* raises an AIService error whose message contains "All models failed" and
\* embeds the last underlying error's text; it is raised only after every
\* model of the list has been attempted, each at most once.
C2_RaisesAfterAllModels ==
    (/\ pc = "done"
     /\ Len(models) >= 1
     /\ \A p \in 1 .. Len(models) : ~AttemptSucceeds(p)) =>
        /\ result.kind = "raise"
        /\ result.error.type = "AIServiceError"
        /\ Contains(result.error.text, "All models failed. Last error: ")
        /\ Embeds(result.error.text, last_error.text)
        /\ \A p \in 1 .. Len(models) :
             \A kind \in {"sentiment", "category"} :
                Cardinality({k \in 1 .. Len(calls) :
                               calls[k].pos = p /\ calls[k].kind = kind}) = 1

\* the list names no model twice
NoRepeats(ms) == \A i, j \in 1 .. Len(ms) : ms[i] = ms[j] => i = j

\* both statements hold of the lists that name each model once
C1_HoldsWithoutRepeats == NoRepeats(models) => C1_ReturnsFirstSuccess
C2_HoldsWithoutRepeats == NoRepeats(models) => C2_RaisesAfterAllModels

\* analyze_feedback as a function of the gateway's replies: pattern[p] holds
\* the replies to the two calls of position p and which of them finishes
\* first (gather raises the first failure).
RECURSIVE AttemptFrom(_, _, _)
AttemptFrom(ms, pattern, p) ==
    IF p > Len(ms)
    THEN [kind |-> "return_none", attempts |-> Len(ms)]
    ELSE LET s == _analyze_sentiment(pattern[p].sentiment)
             c == _categorize_feedback(pattern[p].category)
         IN IF s.ok /\ c.ok
            THEN [kind |-> "return", attempts |-> p,
                  value |-> Combined(s.value, c.value, ms[p])]
            ELSE LET e == IF ~s.ok /\ (c.ok \/ pattern[p].first = "sentiment")
                          THEN s.err ELSE c.err
                 IN IF IsLastModel(ms, p)
                    THEN [kind |-> "raise", attempts |-> p,
                          error |-> AllModelsFailed(e).err]
                    ELSE AttemptFrom(ms, pattern, p + 1)

\* A mutant: the underlying error is raised as it is, not wrapped.
analyze_feedback_Unwrapped(ms, pattern) ==
    LET r == AttemptFrom(ms, pattern, 1)
        s == _analyze_sentiment(pattern[r.attempts].sentiment)
        c == _categorize_feedback(pattern[r.attempts].category)
    IN IF r.kind # "raise" THEN r
       ELSE [r EXCEPT !.error =
               IF ~s.ok /\ (c.ok \/ pattern[r.attempts].first = "sentiment")
               THEN s.err ELSE c.err]

analyze_feedback(ms, pattern) == AttemptFrom(ms, pattern, 1)

\* SpecAI's runs end as the function says, for one of the two finishing orders
AIAgreesWithFunction ==
    pc = "done" =>
        \E firsts \in [1 .. Len(models) -> {"sentiment", "category"}] :
            LET r == analyze_feedback(models,
                        [p \in 1 .. Len(models) |->
                            [sentiment |-> gateway[p].sentiment,
                             category |-> gateway[p].category,
                             first |-> firsts[p]]])
            IN /\ r.kind = result.kind
               /\ r.kind = "return" => r.value = result.value
               /\ r.kind = "raise" => r.error = result.error

-----------------------------------------------------------------------------
(* Tags (models/schemas.py)                                                *)

MaxTags == 10

TagA == Lit(<<"a">>)
TagB == Lit(<<"b">>)

\* the tags a cleaned list can hold
CleanTags == {TagA, TagB}

\* The iteration order of a Python set follows the strings' hashes, which
\* the interpreter seeds anew in each process: a seed is taken here as the
\* order it gives the tags.
HashOrders == { o \in [1 .. Cardinality(CleanTags) -> CleanTags] :
                  \A i, j \in 1 .. Cardinality(CleanTags) : o[i] = o[j] => i = j }

\* list(set(...)): the members of S in the seed's order
ListOfSet(S, seed) == SelectSeq(seed, LAMBDA t : t \in S)

Take(q, n) == SubSeq(q, 1, IF Len(q) < n THEN Len(q) ELSE n)

\* FeedbackCreate.validate_tags and FeedbackUpdate.validate_tags:
\* list(set(tag.strip() for tag in v if tag.strip()))[:10]
validate_tags(v, seed) ==
    Take(ListOfSet({ strip(v[i]) : i \in 1 .. Len(v) } \ {<<>>}, seed), MaxTags)

\* FeedbackUpdate.tags: Field(..., max_length=10) on the list as sent
FeedbackUpdate_tags(v, seed) ==
    IF Len(v) > MaxTags THEN Rejected("too_long")
    ELSE Accepted(validate_tags(v, seed))

\* FeedbackCreate: both fields
FeedbackCreate(body, seed) ==
    LET t == FeedbackCreate_text(body.text)
    IN IF ~t.ok THEN t
       ELSE Accepted([text |-> t.value, tags |-> validate_tags(body.tags, seed)])

-----------------------------------------------------------------------------
(* Storage (models/feedback.py) and responses (main.py)                    *)

MaxOf(S) == CHOOSE x \in S : \A y \in S : y <= x

\* the id storage gives a new row: one more than the largest in use
NextId(d) == IF DOMAIN d = {} THEN 1 ELSE MaxOf(DOMAIN d) + 1

\* FeedbackEntry(...) as committed at storage time now
FeedbackEntry(text, analysis, tags, duration, now) ==
    [text |-> text,
     sentiment |-> analysis.sentiment,
     sentiment_confidence |-> analysis.sentiment_confidence,
     category |-> analysis.category,
     category_confidence |-> analysis.category_confidence,
     tags |-> tags,
     created_at |-> now,
     updated_at |-> <<>>,
     analysis_duration_ms |-> duration,
     model_used |-> analysis.model_used]

\* FeedbackResponse.model_validate(row)
FeedbackResponse(id, e) ==
    [shape |-> "feedback",
     id |-> id,
     text |-> e.text,
     sentiment |-> e.sentiment,
     sentiment_confidence |-> e.sentiment_confidence,
     category |-> e.category,
     category_confidence |-> e.category_confidence,
     tags |-> e.tags,
     created_at |-> e.created_at,
     analysis_duration_ms |-> e.analysis_duration_ms,
     model_used |-> e.model_used]

insert_row(d, id, e) == (id :> e) @@ d

\* A mutant: delete removes every row up to the addressed one.
delete_row_UpTo(d, id) == [i \in { j \in DOMAIN d : j > id } |-> d[i]]

delete_row(d, id) == [i \in DOMAIN d \ {id} |-> d[i]]

\* A mutant: the update stamps created_at as well.
update_row_Restamps(d, id, tags, now) ==
    [d EXCEPT ![id] = IF d[id].tags = tags THEN d[id]
                      ELSE [d[id] EXCEPT !.tags = tags, !.updated_at = <<now>>,
                                         !.created_at = now]]

\* feedback.tags = tags, then commit: onupdate stamps updated_at when the
\* row is written, which it is when the value changed
update_row(d, id, tags, now) ==
    [d EXCEPT ![id] = IF d[id].tags = tags THEN d[id]
                      ELSE [d[id] EXCEPT !.tags = tags, !.updated_at = <<now>>]]

\* response bodies
Detail(d) == [shape |-> "detail", detail |-> d]
ErrorResponseBody(code, message, details) ==
    [shape |-> "error", error |-> code, message |-> message, details |-> details]
MessageBody(m) == [shape |-> "message", message |-> m]

\* what a handler raises
HTTPException(status, detail) == [exc |-> "HTTPException", status |-> status, detail |-> detail]
StorageError == [exc |-> "Exception", text |-> "storage failure"]

\* main.py: api_error_handler
api_error_handler(e) ==
    [status |-> e.status_code, body |-> ErrorResponseBody(e.error_code, e.message, e.details)]

\* A mutant: the catch-all handler reports the error's own text.
general_exception_handler_Leaks(e) ==
    [status |-> 500, body |-> ErrorResponseBody("INTERNAL_ERROR", e.text, <<>>)]

\* main.py: general_exception_handler
general_exception_handler(e) ==
    [status |-> 500,
     body |-> ErrorResponseBody("INTERNAL_ERROR", "An unexpected error occurred", <<>>)]

\* the response to an error a handler raised: the framework answers an
\* HTTPException itself, the application's two handlers the rest
ErrorResponse(e) ==
    CASE e.exc = "HTTPException" -> [status |-> e.status, body |-> Detail(e.detail)]
      [] e.exc = "APIError" -> api_error_handler(e)
      [] OTHER -> general_exception_handler(e)

\* the framework's answer to a body or parameter the schema rejects
ValidationResponse(why) == [status |-> 422, body |-> Detail(<<why>>)]

-----------------------------------------------------------------------------
(* The feedback routes (routers/feedback.py).  A handler is an operator    *)
(* from the request, the storage failure the environment injects (io) and  *)
(* the state to the response, the new storage and the gateway calls made.  *)

Effect(r, d, n) == [status |-> r.status, body |-> r.body, db |-> d, calls |-> n]

\* A mutant: the gateway is called before the body is validated.
analyze_CallsFirst(body, sc, duration, d, now, seed) ==
    LET parsed == FeedbackCreate(body, seed)
        r == analyze_feedback(ShippedModels, <<sc>>)
    IN IF ~parsed.ok
       THEN Effect(ValidationResponse(parsed.why), d, 2 * r.attempts)
       ELSE IF r.kind # "return"
       THEN Effect(ErrorResponse(HTTPException(503, r.error.text)), d, 2 * r.attempts)
       ELSE Effect([status |-> 200,
                    body |-> FeedbackResponse(NextId(d),
                               FeedbackEntry(parsed.value.text, r.value,
                                             parsed.value.tags, duration, now))],
                   insert_row(d, NextId(d),
                              FeedbackEntry(parsed.value.text, r.value,
                                            parsed.value.tags, duration, now)),
                   2 * r.attempts)

\* POST /api/feedback/analyze
analyze(body, sc, duration, d, now, seed) ==
    LET parsed == FeedbackCreate(body, seed)
        r == analyze_feedback(ShippedModels, <<sc>>)
        id == NextId(d)
        row == FeedbackEntry(parsed.value.text, r.value, parsed.value.tags, duration, now)
        internal == ErrorResponse(HTTPException(500, <<"Internal server error">>))
    IN IF ~parsed.ok
       THEN Effect(ValidationResponse(parsed.why), d, 0)
       ELSE CASE r.kind = "raise" /\ r.error.type = "AIServiceError" ->
                   Effect(ErrorResponse(HTTPException(503, r.error.text)), d, 2 * r.attempts)
              [] r.kind = "raise" /\ r.error.type # "AIServiceError" ->
                   Effect(internal, d, 2 * r.attempts)
              [] r.kind = "return_none" ->
                   Effect(internal, d, 2 * r.attempts)
              [] r.kind = "return" /\ sc.io = "commit" ->
                   Effect(internal, d, 2 * r.attempts)
              [] r.kind = "return" /\ sc.io = "refresh" ->
                   Effect(internal, insert_row(d, id, row), 2 * r.attempts)
              [] OTHER ->
                   Effect([status |-> 200, body |-> FeedbackResponse(id, row)],
                          insert_row(d, id, row), 2 * r.attempts)

NotFound == HTTPException(404, <<"Feedback not found">>)

\* GET /api/feedback/{id}
get_feedback(id, io, d) ==
    IF io = "execute" THEN Effect(ErrorResponse(StorageError), d, 0)
    ELSE IF id \notin DOMAIN d THEN Effect(ErrorResponse(NotFound), d, 0)
    ELSE Effect([status |-> 200, body |-> FeedbackResponse(id, d[id])], d, 0)

\* PUT /api/feedback/{id}/tags
update_feedback_tags(id, tags, io, d, now, seed) ==
    LET parsed == FeedbackUpdate_tags(tags, seed)
    IN IF ~parsed.ok THEN Effect(ValidationResponse(parsed.why), d, 0)
       ELSE IF io = "execute" THEN Effect(ErrorResponse(StorageError), d, 0)
       ELSE IF id \notin DOMAIN d THEN Effect(ErrorResponse(NotFound), d, 0)
       ELSE IF io = "commit" THEN Effect(ErrorResponse(StorageError), d, 0)
       ELSE LET d2 == update_row(d, id, parsed.value, now)
            IN IF io = "refresh" THEN Effect(ErrorResponse(StorageError), d2, 0)
               ELSE Effect([status |-> 200, body |-> FeedbackResponse(id, d2[id])], d2, 0)

\* DELETE /api/feedback/{id}
delete_feedback(id, io, d) ==
    IF io = "execute" THEN Effect(ErrorResponse(StorageError), d, 0)
    ELSE IF id \notin DOMAIN d THEN Effect(ErrorResponse(NotFound), d, 0)
    ELSE IF io = "commit" THEN Effect(ErrorResponse(StorageError), d, 0)
    ELSE Effect([status |-> 200, body |-> MessageBody("Feedback deleted successfully")],
                delete_row(d, id), 0)

-----------------------------------------------------------------------------
(* Spec: the feedback routes over storage                                  *)

\* Storage time is read at each write that stamps a row (an insert, an
\* update that changes the row) and has moved on by the next one; MaxWrites
\* bounds the stamping writes of a run, and so the ids storage hands out.
MaxWrites == 2

GoodText == Cat(Rep(" ", 1), Lit(<<"h", "i">>))
BadTexts == { <<>>, Rep(" ", 2), Rep("x", MaxTextLen + 1) }

TagInputs ==
    { <<>>,
      <<TagA, TagB>>,
      <<Cat(Rep(" ", 1), TagA), <<>>, TagA>>,
      [i \in 1 .. (MaxTags + 1) |-> TagA] }

GoodSentimentReply == JsonReply(SentimentJson("positive", 95))
GoodCategoryReply == JsonReply(CategoryJson(Lit(<<"U", "X">>), 88))

\* the replies that fail a sentiment call, one for each cause
FailingSentimentReplies ==
    { HttpReply(429), HttpReply(401), HttpReply(500), NetworkReply,
      NoChoicesReply, NoKeyReply, GarbageReply,
      JsonReply(JsonArray),
      JsonReply(SentimentJson("mixed", 50)),
      JsonReply(SentimentJson("positive", 150)) }

FailingCategoryReplies == { HttpReply(503) }

AnalysisDurations == {12}

\* what the gateway and storage do during one POST /analyze
Scenario(s, c, first, io) == [sentiment |-> s, category |-> c, first |-> first, io |-> io]

QuietScenario == Scenario(GoodSentimentReply, GoodCategoryReply, "sentiment", "ok")

FailingScenarios ==
    { Scenario(s, GoodCategoryReply, "sentiment", "ok") : s \in FailingSentimentReplies }
    \cup { Scenario(GoodSentimentReply, c, "category", "ok") : c \in FailingCategoryReplies }
    \cup { Scenario(HttpReply(429), c, f, "ok") :
             c \in FailingCategoryReplies, f \in {"sentiment", "category"} }

\* the requests to POST /analyze: every body where the gateway and storage
\* work, one body for each way they fail, and the bodies the schema rejects
AnalyzeRequests ==
    { [body |-> [text |-> GoodText, tags |-> t], sc |-> QuietScenario] : t \in TagInputs }
    \cup { [body |-> [text |-> GoodText, tags |-> <<TagA, TagB>>],
            sc |-> Scenario(GoodSentimentReply, GoodCategoryReply, "sentiment", io)] :
             io \in {"commit", "refresh"} }
    \cup { [body |-> [text |-> GoodText, tags |-> <<>>], sc |-> sc] : sc \in FailingScenarios }
    \cup { [body |-> [text |-> t, tags |-> <<>>], sc |-> QuietScenario] : t \in BadTexts }

\* the requests to PUT /{id}/tags: every tag list where storage works, one
\* for each way it fails
PutRequests ==
    { [tags |-> t, io |-> "ok"] : t \in TagInputs }
    \cup { [tags |-> <<TagA, TagB>>, io |-> io] : io \in {"execute", "commit", "refresh"} }

Init ==
    /\ db = <<>>
    /\ clock = 0
    /\ hashSeed \in HashOrders
    /\ gwCalls = 0
    /\ resp = [op |-> "none", status |-> 0]
    /\ handler = None
    /\ arg = None
    /\ ret = Pending
    /\ AIIdle

\* the step from storage d to d2 wrote a row
Stamped(d, d2) == \E i \in DOMAIN d2 : i \notin DOMAIN d \/ d2[i] # d[i]

Respond(op, req, eff) ==
    /\ resp' = [op |-> op, req |-> req, status |-> eff.status, body |-> eff.body]
    /\ db' = eff.db
    /\ gwCalls' = eff.calls
    /\ Stamped(db, eff.db) => clock < MaxWrites
    /\ clock' = IF Stamped(db, eff.db) THEN clock + 1 ELSE clock
    /\ UNCHANGED <<hashSeed, handler, pureVars, aiVars>>

PostAnalyze ==
    \E rq \in AnalyzeRequests, duration \in AnalysisDurations :
        LET eff == analyze(rq.body, rq.sc, duration, db, clock, hashSeed)
        IN Respond("analyze", [sc |-> rq.sc], eff)

GetFeedback ==
    \E id \in 1 .. MaxWrites, io \in {"ok", "execute"} :
        Respond("get", [id |-> id, io |-> io], get_feedback(id, io, db))

PutTags ==
    \E id \in 1 .. MaxWrites, rq \in PutRequests :
        Respond("put", [id |-> id, io |-> rq.io, tags |-> rq.tags],
                update_feedback_tags(id, rq.tags, rq.io, db, clock, hashSeed))

DeleteFeedback ==
    \E id \in 1 .. MaxWrites, io \in {"ok", "execute", "commit"} :
        Respond("delete", [id |-> id, io |-> io], delete_feedback(id, io, db))

Next ==
    \/ PostAnalyze
    \/ GetFeedback
    \/ PutTags
    \/ DeleteFeedback

Spec == Init /\ [][Next]_vars

-----------------------------------------------------------------------------
(* SpecList: GET /api/feedback/ (routers/feedback.py 72-135) on a storage  *)
(* state and a query drawn at the start.  Storage stamps created_at to the *)
(* second, so entries can share one; the order ORDER BY gives entries of   *)
(* equal created_at is storage's choice.  The sentiment filter stands for  *)
(* the filters.                                                             *)

MaxEntries == 3
MaxStamp == 2

MaxPageSize == 100
DefaultPageSize == 20

\* str.lower() on the filter values used here
Lower(s) ==
    CASE s = "POSITIVE" -> "positive"
      [] s = "Negative" -> "negative"
      [] OTHER -> s

\* utils/validators.py; "" stands for no value
validate_sentiment(sentiment) ==
    IF sentiment = "" THEN ""
    ELSE IF Lower(sentiment) \in Sentiments THEN Lower(sentiment)
    ELSE ""

\* A mutant: a page size above the ceiling is left as it is.
validate_pagination_NoCeiling(page, page_size) ==
    [page |-> IF page < 1 THEN 1 ELSE page,
     page_size |-> IF page_size < 1 THEN DefaultPageSize ELSE page_size]

\* utils/validators.py
validate_pagination(page, page_size) ==
    [page |-> IF page < 1 THEN 1 ELSE page,
     page_size |-> IF page_size < 1 THEN DefaultPageSize
                   ELSE IF page_size > MaxPageSize THEN MaxPageSize
                   ELSE page_size]

\* Query(1, ge=1) and Query(20, ge=1, le=100)
QueryAccepted(page, page_size) ==
    page >= 1 /\ page_size >= 1 /\ page_size <= MaxPageSize

\* the characters of a run-length encoded string, one by one
RECURSIVE Chars(_)
Chars(s) == IF s = <<>> THEN <<>> ELSE [i \in 1 .. s[1].n |-> s[1].ch] \o Chars(Tail(s))

\* lower() on the characters used here
LowerCh(c) ==
    CASE c = "A" -> "a"
      [] c = "B" -> "b"
      [] c = "H" -> "h"
      [] c = "S" -> "s"
      [] c = "U" -> "u"
      [] c = "X" -> "x"
      [] OTHER -> c

LowerSeq(t) == [i \in 1 .. Len(t) |-> LowerCh(t[i])]

\* SQL LIKE with no escape character: % matches any run of characters, _ any
\* one character, a letter itself in either case
RECURSIVE Like(_, _)
Like(t, pattern) ==
    IF pattern = <<>> THEN t = <<>>
    ELSE IF pattern[1] = "%"
    THEN Like(t, Tail(pattern)) \/ (t # <<>> /\ Like(Tail(t), pattern))
    ELSE /\ t # <<>>
         /\ pattern[1] = "_" \/ LowerCh(pattern[1]) = LowerCh(t[1])
         /\ Like(Tail(t), Tail(pattern))

\* column.ilike(f"%{value}%")
ilike_contains(column, value) == Like(LowerSeq(column), <<"%">> \o LowerSeq(value) \o <<"%">>)

\* json_extract(tags, '$'): the array as JSON text
RECURSIVE TagsJsonFrom(_, _)
TagsJsonFrom(tags, k) ==
    IF k > Len(tags) THEN <<>>
    ELSE (IF k > 1 THEN <<",">> ELSE <<>>)
         \o <<"\"">> \o Chars(tags[k]) \o <<"\"">> \o TagsJsonFrom(tags, k + 1)

json_extract_tags(tags) == <<"[">> \o TagsJsonFrom(tags, 1) \o <<"]">>

\* json_extract(tags, '$').like(f'%"{tag}"%')
tag_like(tags, tag) ==
    Like(json_extract_tags(tags), <<"%", "\"">> \o tag \o <<"\"", "%">>)

\* lines 89-110: the ids of the rows the WHERE clause keeps
Matching(d, q) ==
    LET s == validate_sentiment(q.sentiment)
    IN IF s = "" /\ q.category = <<>> /\ q.search = <<>> /\ q.tag = <<>>
       THEN DOMAIN d
       ELSE { i \in DOMAIN d :
                \/ s # "" /\ d[i].sentiment = s
                \/ q.category # <<>> /\ ilike_contains(Chars(d[i].category), q.category)
                \/ q.search # <<>> /\ ilike_contains(Chars(d[i].text), q.search)
                \/ q.tag # <<>> /\ tag_like(d[i].tags, q.tag) }

Orderings(S) ==
    { o \in [1 .. Cardinality(S) -> S] :
        \A i, j \in 1 .. Cardinality(S) : o[i] = o[j] => i = j }

\* ORDER BY created_at DESC: the orders storage may give the rows of S
created_at_desc(d, S) ==
    { o \in Orderings(S) :
        \A i, j \in 1 .. Len(o) : i < j => d[o[i]].created_at >= d[o[j]].created_at }

\* OFFSET offset LIMIT limit
offset_limit(o, offset, limit) ==
    SubSeq(o, offset + 1, IF Len(o) < offset + limit THEN Len(o) ELSE offset + limit)

\* A mutant: the page count rounds down.
PageCount_RoundsDown(total, page_size) ==
    IF total > 0 THEN total \div page_size ELSE 0

\* line 134: pages
PageCount(total, page_size) ==
    IF total > 0 THEN (total + page_size - 1) \div page_size ELSE 0

PaginatedResponse(items, total, page, page_size, pages) ==
    [shape |-> "page", items |-> items, total |-> total,
     page |-> page, page_size |-> page_size, pages |-> pages]

\* GET /api/feedback/ with the filters of q, order being the order storage
\* gives the matching rows
get_feedback_list(page, page_size, q, order, d) ==
    IF ~QueryAccepted(page, page_size)
    THEN ValidationResponse("query")
    ELSE LET v == validate_pagination(page, page_size)
             total == Cardinality(Matching(d, q))
             rows == offset_limit(order, (v.page - 1) * v.page_size, v.page_size)
         IN [status |-> 200,
             body |-> PaginatedResponse(
                        [k \in 1 .. Len(rows) |-> FeedbackResponse(rows[k], d[rows[k]])],
                        total, v.page, v.page_size, PageCount(total, v.page_size))]

ListSentiments == {"positive", "negative"}

ListAnalysis(s) ==
    [sentiment |-> s, sentiment_confidence |-> 95, category |-> Lit(<<"U", "X">>),
     category_confidence |-> 88, model_used |-> "qwen/qwen3-235b-a22b-07-25:free"]

\* the storage states: ids as storage hands them out (with the gaps deletes
\* leave), created_at never decreasing with the id
ListStores ==
    UNION { { [i \in S |-> FeedbackEntry(Lit(<<"h", "i">>), ListAnalysis(sent[i]),
                                         <<>>, 12, stamp[i])] :
                sent \in [S -> ListSentiments],
                stamp \in { st \in [S -> 1 .. MaxStamp] :
                              \A i, j \in S : i < j => st[i] <= st[j] } } :
            S \in SUBSET (1 .. MaxEntries) }

ListQueries ==
    [page : 0 .. (MaxEntries + 1),
     page_size : (0 .. MaxEntries) \cup {MaxPageSize, MaxPageSize + 1, 500},
     sentiment : {"", "POSITIVE", "bogus"},
     category : {<<>>}, search : {<<>>}, tag : {<<>>}]

InitList ==
    /\ db \in ListStores
    /\ arg \in ListQueries
    /\ ret = Pending
    /\ resp = [op |-> "none", status |-> 0]
    /\ clock = 0
    /\ hashSeed = 0
    /\ gwCalls = 0
    /\ handler = None
    /\ AIIdle

ListFeedback ==
    /\ resp.op = "none"
    /\ \E order \in created_at_desc(db, Matching(db, arg)) :
          LET r == get_feedback_list(arg.page, arg.page_size, arg, order, db)
          IN resp' = [op |-> "list", req |-> arg, status |-> r.status, body |-> r.body]
    /\ UNCHANGED <<db, clock, hashSeed, gwCalls, handler, pureVars, aiVars>>

NextList == ListFeedback

SpecList == InitList /\ [][NextList]_vars

\* C10: for every storage state and every valid page and page_size, the
\* list response has total = the number of matching entries, pages =
\* ceil(total / page_size) (0 when total = 0), and items = the entries at
\* positions (page-1)*page_size+1 .. page*page_size of the matching entries
\* in descending creation order: at most page_size items, none on an empty
\* store or past the last page.
C10_ListPage ==
    (resp.op = "list" /\ arg.page >= 1 /\ arg.page_size \in 1 .. 100) =>
        LET ps == arg.page_size
            lo == (arg.page - 1) * ps + 1
            hi == arg.page * ps
            m == Matching(db, arg)
            b == resp.body
        IN /\ resp.status = 200
           /\ b.total = Cardinality(m)
           /\ b.page = arg.page /\ b.page_size = ps
           /\ IF b.total = 0 THEN b.pages = 0
              ELSE b.pages * ps >= b.total /\ (b.pages - 1) * ps < b.total
           /\ Len(b.items) <= ps
           /\ lo > b.total => b.items = <<>>
           /\ \E o \in Orderings(m) :
                /\ \A i \in 1 .. (Len(o) - 1) :
                      db[o[i]].created_at >= db[o[i + 1]].created_at
                /\ Len(b.items) = Cardinality({ k \in lo .. hi : k <= Len(o) })
                /\ \A k \in 1 .. Len(b.items) :
                      b.items[k] = FeedbackResponse(o[lo + k - 1], db[o[lo + k - 1]])

\* the second page of two has been listed
C10_Witness ==
    /\ resp.op = "list"
    /\ resp.status = 200
    /\ arg.page = 2
    /\ resp.body.total = 3
    /\ resp.body.pages = 2
    /\ Len(resp.body.items) = 1


------------------------------------------------------------------------\* the response the list route gives the same request once page and
\* page_size are clamped as validate_pagination clamps them
ClampedResponses(q, d) ==
    LET v == validate_pagination(q.page, q.page_size)
    IN { get_feedback_list(v.page, v.page_size, q, order, d) :
           order \in created_at_desc(d, Matching(d, q)) }

\* C19: on the list operation a request with page=0 behaves as the same
\* request with page=1, one with page_size=500 as one with page_size=100,
\* and one with page_size=0 as one with page_size=20: each pair yields the
\* same response.
C19_PaginationClamped ==
    resp.op = "list" =>
        [status |-> resp.status, body |-> resp.body] \in ClampedResponses(arg, db)

\* what the route does with these requests: the query parameters' bounds
\* answer 422 before validate_pagination is reached
C19_OutOfRangeRejected ==
    (resp.op = "list" /\ ~QueryAccepted(arg.page, arg.page_size)) =>
        resp.status = 422

-----
(* SpecFilter: GET /api/feedback/ with any combination of the four filters, *)
(* on the first page at the largest page size                               *)

MaxFilterEntries == 2

FilterAnalysis(sentiment, category) ==
    [sentiment |-> sentiment, sentiment_confidence |-> 95, category |-> category,
     category_confidence |-> 88, model_used |-> "qwen/qwen3-235b-a22b-07-25:free"]

\* the kinds of entry in storage: sentiment, category, text, tags
FilterProfiles ==
    { [sentiment |-> "positive", category |-> Lit(<<"U", "X">>),
       text |-> Lit(<<"h", "i">>), tags |-> <<TagA, TagB>>],
      [sentiment |-> "negative", category |-> Lit(<<"S", "h", "i", "p">>),
       text |-> Lit(<<"o", "k">>), tags |-> <<>>],
      [sentiment |-> "neutral", category |-> Lit(<<"U", "X">>),
       text |-> Lit(<<"o", "h">>), tags |-> <<TagB>>] }

FilterStores ==
    UNION { { [i \in 1 .. n |->
                 FeedbackEntry(kind[i].text,
                               FilterAnalysis(kind[i].sentiment, kind[i].category),
                               kind[i].tags, 12, i)] :
                kind \in [1 .. n -> FilterProfiles] } :
            n \in 0 .. MaxFilterEntries }

FilterQueries ==
    [page : {1},
     page_size : {MaxPageSize},
     sentiment : {"", "POSITIVE", "bogus"},
     category : {<<>>, <<"u">>, <<"_">>},
     search : {<<>>, <<"H">>, <<"z">>},
     tag : {<<>>, <<"a">>, <<"B">>}]

InitFilter ==
    /\ db \in FilterStores
    /\ arg \in FilterQueries
    /\ ret = Pending
    /\ resp = [op |-> "none", status |-> 0]
    /\ clock = 0
    /\ hashSeed = 0
    /\ gwCalls = 0
    /\ handler = None
    /\ AIIdle

SpecFilter == InitFilter /\ [][NextList]_vars

\* value occurs in t, letters compared in lower case
SubstringOf(value, t) ==
    \E i \in 0 .. (Len(t) - Len(value)) :
        LowerSeq(SubSeq(t, i + 1, i + Len(value))) = LowerSeq(value)

\* the entry satisfies at least one of the filters the query supplies
SatisfiesAFilter(e, q) ==
    \/ Lower(q.sentiment) \in Sentiments /\ e.sentiment = Lower(q.sentiment)
    \/ q.category # <<>> /\ SubstringOf(q.category, Chars(e.category))
    \/ q.search # <<>> /\ SubstringOf(q.search, Chars(e.text))
    \/ q.tag # <<>> /\ \E k \in 1 .. Len(e.tags) :
                            LowerSeq(Chars(e.tags[k])) = LowerSeq(q.tag)

SuppliesAFilter(q) ==
    \/ Lower(q.sentiment) \in Sentiments
    \/ q.category # <<>>
    \/ q.search # <<>>
    \/ q.tag # <<>>

\* C11: the list selects, for both items and total, exactly the entries that
\* satisfy at least one of the supplied filters (sentiment exact match after
\* lower-casing, category substring, search substring of the text, tag
\* membership); an unrecognised sentiment is ignored, and with no filter
\* every entry is selected.
C11_SelectsAnyFilterMatch ==
    (resp.op = "list" /\ resp.status = 200) =>
        LET selected == IF SuppliesAFilter(arg) THEN
                            { i \in DOMAIN db : SatisfiesAFilter(db[i], arg) }
                        ELSE DOMAIN db
        IN /\ resp.body.total = Cardinality(selected)
           /\ { resp.body.items[k].id : k \in 1 .. Len(resp.body.items) } = selected

\* the filter values hold no LIKE wildcard
NoWildcards(q) ==
    \A v \in {q.category, q.search, q.tag} :
        \A k \in 1 .. Len(v) : v[k] \notin {"%", "_"}

\* the statement holds of the queries whose values hold no wildcard
C11_HoldsWithoutWildcards == NoWildcards(arg) => C11_SelectsAnyFilterMatch

-----------------------------------------------------------------------------
(* SpecCreate: POST /analyze with gateway replies at and beyond the bounds  *)
(* of the result schemas, and DELETE, over storage                          *)

ValidSentimentReplies ==
    { JsonReply(SentimentJson("positive", MinConfidence)),
      JsonReply(SentimentJson("neutral", MaxConfidence)),
      JsonReply(SentimentJson("negative", 50)) }

InvalidSentimentReplies ==
    { JsonReply(SentimentJson("mixed", 50)),
      JsonReply(SentimentJson("positive", MaxConfidence + 1)),
      JsonReply(SentimentJson("positive", MinConfidence - 1)),
      JsonReply(JsonObject([confidence |-> 50, reasoning |-> "because"])),
      JsonReply(JsonObject([sentiment |-> "positive", reasoning |-> "because"])),
      JsonReply(JsonObject([sentiment |-> "positive", confidence |-> 50])),
      JsonReply(JsonArray) }

ValidCategoryReplies ==
    { JsonReply(CategoryJson(Rep("c", MinCategoryLen), MinConfidence)),
      JsonReply(CategoryJson(Rep("c", MaxCategoryLen), MaxConfidence)) }

InvalidCategoryReplies ==
    { JsonReply(CategoryJson(<<>>, 50)),
      JsonReply(CategoryJson(Rep("c", MaxCategoryLen + 1), 50)),
      JsonReply(CategoryJson(Rep("c", 2), MaxConfidence + 1)),
      JsonReply(JsonObject([confidence |-> 50, reasoning |-> "because"])) }

CreateScenarios ==
    { Scenario(sr, cr, "sentiment", "ok") :
        sr \in ValidSentimentReplies, cr \in ValidCategoryReplies }
    \cup { Scenario(sr, cr, "sentiment", "ok") :
             sr \in InvalidSentimentReplies, cr \in ValidCategoryReplies }
    \cup { Scenario(sr, cr, "category", "ok") :
             sr \in ValidSentimentReplies, cr \in InvalidCategoryReplies }

CreateRequests ==
    { [body |-> [text |-> GoodText, tags |-> <<>>], sc |-> sc] : sc \in CreateScenarios }
    \cup { [body |-> [text |-> t, tags |-> <<>>], sc |-> QuietScenario] : t \in BadTexts }

CreateFeedback ==
    \E rq \in CreateRequests, duration \in AnalysisDurations :
        Respond("analyze", [sc |-> rq.sc],
                analyze(rq.body, rq.sc, duration, db, clock, hashSeed))

NextCreate ==
    \/ CreateFeedback
    \/ DeleteFeedback

SpecCreate == Init /\ [][NextCreate]_vars

\* the reply is not an object with the three fields, a sentiment among the
\* three literals and a confidence within [0, 1]
UnusableSentiment(reply) ==
    LET v == reply.content.value
    IN \/ v.t # "object"
       \/ {"sentiment", "confidence", "reasoning"} \ DOMAIN v.fields # {}
       \/ v.fields.sentiment \notin {"positive", "neutral", "negative"}
       \/ v.fields.confidence < 0
       \/ v.fields.confidence > 100

UnusableCategory(reply) ==
    LET v == reply.content.value
    IN \/ v.t # "object"
       \/ {"category", "confidence", "reasoning"} \ DOMAIN v.fields # {}
       \/ v.fields.confidence < 0
       \/ v.fields.confidence > 100

\* C12: in every reachable storage state every stored entry has a sentiment
\* among positive, neutral, negative, both confidences within [0, 1], a
\* category of 1 to 100 characters and a text that is not blank; a gateway
\* reply with another sentiment, an out-of-range confidence or a missing
\* field fails the call, and nothing of it is persisted.
C12_StoredEntriesValid ==
    /\ [](\A i \in DOMAIN db :
            /\ db[i].sentiment \in {"positive", "neutral", "negative"}
            /\ db[i].sentiment_confidence \in 0 .. 100
            /\ db[i].category_confidence \in 0 .. 100
            /\ StrLen(db[i].category) \in 1 .. 100
            /\ strip(db[i].text) # <<>>)
    /\ []((/\ resp.op = "analyze"
           /\ resp.status # 422
           /\ \/ UnusableSentiment(resp.req.sc.sentiment)
              \/ UnusableCategory(resp.req.sc.category)) => resp.status = 503)
    /\ [][(/\ resp'.op = "analyze"
           /\ \/ UnusableSentiment(resp'.req.sc.sentiment)
              \/ UnusableCategory(resp'.req.sc.category)) => db' = db]_vars

\* a reply with a confidence above 1 has been refused while storage holds
\* an entry with a confidence of exactly 1 and a category of 100 characters
C12_Witness ==
    /\ resp.op = "analyze"
    /\ resp.status = 503
    /\ resp.req.sc.sentiment = JsonReply(SentimentJson("positive", MaxConfidence + 1))
    /\ \E i \in DOMAIN db :
          /\ db[i].sentiment_confidence = 100
          /\ StrLen(db[i].category) = 100

-----------------------------------------------------------------------------
(* SpecService: creates and tag updates through the routes, and tag updates *)
(* through FeedbackService (services/feedback_service.py)                   *)

\* utils/exceptions.py: NotFoundError(message)
NotFoundError(message) ==
    [exc |-> "APIError", status_code |-> 404, error_code |-> "NOT_FOUND",
     message |-> message, details |-> <<>>]

\* what a service method hands its caller: a value or an exception
Returned(v) == [status |-> 0, body |-> [shape |-> "returned", value |-> v]]
Raised(e) == [status |-> 0, body |-> [shape |-> "raised", exc |-> e]]

\* FeedbackService.update_feedback_tags(feedback_id, tags)
FeedbackService_update_feedback_tags(id, tags, d, now) ==
    IF id \notin DOMAIN d
    THEN Effect(Raised(NotFoundError(<<"Feedback with ID ", id, " not found">>)), d, 0)
    ELSE LET d2 == update_row(d, id, tags, now)
         IN Effect(Returned(d2[id]), d2, 0)

ServiceUpdateTags ==
    \E id \in 1 .. MaxWrites, tags \in TagInputs :
        Respond("service_update_tags", [id |-> id, tags |-> tags],
                FeedbackService_update_feedback_tags(id, tags, db, clock))

NextService ==
    \/ PostAnalyze
    \/ PutTags
    \/ ServiceUpdateTags

SpecService == Init /\ [][NextService]_vars

\* C13: after any sequence of create and tag-update operations, made through
\* the routes or through FeedbackService, every stored entry has at most 10
\* tags, no two equal tags, and no tag that is empty after trimming.
C13_StoredTagsClean ==
    \A i \in DOMAIN db :
        /\ Len(db[i].tags) <= 10
        /\ NoRepeats(db[i].tags)
        /\ \A k \in 1 .. Len(db[i].tags) : strip(db[i].tags[k]) # <<>>

\* the statement holds as long as the last operation was a route's
C13_HoldsThroughRoutes == resp.op # "service_update_tags" => C13_StoredTagsClean

-----------------------------------------------------------------------------
(* SpecShipped: analyze_feedback with the model list the source ships       *)
(* (services/ai_service.py 33-36) and a gateway scripted for two pairs of   *)
(* calls, as the tests of tests/test_ai_service.py script it.  The shipped  *)
(* list is not empty and its last model occurs once, so the loop never runs *)
(* out of models.                                                           *)

ScriptedPairs == 2

ShippedCategoryReplies == AICategoryReplies \cup {HttpReply(429)}

InitShipped ==
    /\ models = ShippedModels
    /\ gateway \in [1 .. ScriptedPairs ->
                      [sentiment : AISentimentReplies, category : ShippedCategoryReplies]]
    /\ pos = 1
    /\ pc = "loop"
    /\ calls = <<>>
    /\ gatherExc = None
    /\ last_error = None
    /\ result = [kind |-> "running"]
    /\ arg = None
    /\ ret = Pending
    /\ APIIdle

NextShipped ==
    \/ StartAttempt
    \/ \E k \in 1 .. Len(calls) : Complete(k)
    \/ GatherReturns
    \/ ExceptHandler

SpecShipped == InitShipped /\ [][NextShipped]_vars

\* the loop of the shipped list never runs out: LoopEnds is never enabled
ShippedLoopNeverEnds == pc = "loop" => pos <= Len(models)

\* both calls of pair p answer HTTP 429
PairRateLimited(p) ==
    gateway[p].sentiment = HttpReply(429) /\ gateway[p].category = HttpReply(429)

\* C20: with the shipped model list, analyze_feedback reports model_used =
\* "openai/gpt-3.5-turbo" when the first pair of gateway calls succeeds, and
\* when the first pair fails with HTTP 429 and the next pair succeeds it
\* returns with model_used = "meta-llama/llama-3.1-8b-instruct:free"
\* instead of raising.
C20_ShippedFallback ==
    pc = "done" =>
        /\ AttemptSucceeds(1) =>
              /\ result.kind = "return"
              /\ result.value.model_used = "openai/gpt-3.5-turbo"
        /\ (PairRateLimited(1) /\ AttemptSucceeds(2)) =>
              /\ result.kind = "return"
              /\ result.value.model_used = "meta-llama/llama-3.1-8b-instruct:free"

\* what the shipped list does: its one model is reported on success, and a
\* failed first pair raises "All models failed" with no second pair called
C20_ShippedSingleModel ==
    pc = "done" =>
        /\ Len(calls) = 2
        /\ AttemptSucceeds(1) =>
              /\ result.kind = "return"
              /\ result.value.model_used = "qwen/qwen3-235b-a22b-07-25:free"
        /\ ~AttemptSucceeds(1) =>
              /\ result.kind = "raise"
              /\ Contains(result.error.text, "All models failed. Last error: ")

-----------------------------------------------------------------------------
(* SpecHealth: GET /api/health (routers/health.py 14-46) step by step: the *)
(* storage probe, the gateway probe (OpenRouterClient.check_health,         *)
(* services/ai_service.py 184-197) and the response.  What storage answers *)
(* SELECT 1, what the gateway answers the model-listing request and whether *)
(* closing the client fails are drawn at the start.  The session's commit   *)
(* at the end of the request (database.py 33) has nothing to write.         *)

TimeoutReply == [kind |-> "timeout"]

HealthStatuses == {200, 201, 204, 301, 401, 404, 429, 500, 503}

ModelListingReplies ==
    { HttpReply(code) : code \in HealthStatuses } \cup {NetworkReply, TimeoutReply}

\* db.execute(text("SELECT 1")) and result.scalar()
SelectOneOutcomes ==
    { [kind |-> "scalar", value |-> 1],
      [kind |-> "scalar", value |-> 0],
      [kind |-> "raises"] }

\* A mutant: every 2xx status counts as available.
check_health_Any2xx(reply) ==
    IF reply.kind = "http"
    THEN Ok(reply.status >= 200 /\ reply.status < 300)
    ELSE Ok(FALSE)

\* lines 186-197: the status of the reply compared with 200; except
\* Exception: return False
check_health(reply) ==
    IF reply.kind = "http"
    THEN Ok(reply.status = 200)
    ELSE Ok(FALSE)

\* lines 20-27
db_status(outcome) ==
    IF outcome.kind = "scalar" /\ outcome.value = 1 THEN "healthy" ELSE "unhealthy"

\* lines 29-36: ai_status is set before the client is closed, and an
\* exception of the probe or of the close is swallowed
ai_status(probe, aclose) ==
    LET assigned == IF probe.ok /\ probe.value THEN "healthy" ELSE "unhealthy"
    IN IF aclose = "raises" THEN assigned  \* except Exception: pass
       ELSE assigned

\* A mutant: one healthy component makes the whole healthy.
overall_status_Either(database, ai_service) ==
    IF database = "healthy" \/ ai_service = "healthy" THEN "healthy" ELSE "degraded"

\* line 39
overall_status(database, ai_service) ==
    IF database = "healthy" /\ ai_service = "healthy" THEN "healthy" ELSE "degraded"

HealthResponse(database, ai_service, now) ==
    [shape |-> "health",
     status |-> overall_status(database, ai_service),
     database |-> database,
     ai_service |-> ai_service,
     timestamp |-> now]

InitHealth ==
    /\ arg \in [select_one : SelectOneOutcomes,
                models_reply : ModelListingReplies,
                aclose : {"ok", "raises"}]
    /\ ret = Pending
    /\ db = <<>>
    /\ clock = 0
    /\ hashSeed = 0
    /\ gwCalls = 0
    /\ resp = [op |-> "none", status |-> 0]
    /\ handler = None
    /\ AIIdle

ProbeDatabase ==
    /\ resp.op = "none"
    /\ handler = None
    /\ handler' = [kind |-> "health", at |-> "ai", db_status |-> db_status(arg.select_one)]
    /\ UNCHANGED <<db, clock, hashSeed, gwCalls, resp, pureVars, aiVars>>

ProbeGateway ==
    /\ handler # None
    /\ handler.at = "ai"
    /\ LET probe == check_health(arg.models_reply)
       IN handler' = [kind |-> "health", at |-> "respond",
                      db_status |-> handler.db_status,
                      probe |-> probe,
                      ai_status |-> ai_status(probe, arg.aclose)]
    /\ gwCalls' = gwCalls + 1
    /\ UNCHANGED <<db, clock, hashSeed, resp, pureVars, aiVars>>

HealthRespond ==
    /\ handler # None
    /\ handler.at = "respond"
    /\ resp' = [op |-> "health", req |-> arg, status |-> 200,
                body |-> HealthResponse(handler.db_status, handler.ai_status, clock)]
    /\ handler' = None
    /\ UNCHANGED <<db, clock, hashSeed, gwCalls, pureVars, aiVars>>

NextHealth ==
    \/ ProbeDatabase
    \/ ProbeGateway
    \/ HealthRespond

SpecHealth == InitHealth /\ [][NextHealth]_vars

\* the probes' outcomes, read off what storage and the gateway answered
DatabaseProbeSucceeded == arg.select_one = [kind |-> "scalar", value |-> 1]
GatewayProbeSucceeded == arg.models_reply = HttpReply(200)

\* C15: GET /api/health always completes with a 200 HealthResponse whatever
\* the two probes do (return, fail or raise): database and ai_service are
\* each "healthy" exactly when their probe succeeded and "unhealthy"
\* otherwise, and status is "healthy" exactly when both are "healthy" and
\* "degraded" in every other case.
C15_HealthAlways200 ==
    /\ (handler # None /\ handler.at = "respond") => ENABLED HealthRespond
    /\ resp.op = "health" =>
          /\ resp.status = 200
          /\ resp.body.shape = "health"
          /\ resp.body.database =
                (IF DatabaseProbeSucceeded THEN "healthy" ELSE "unhealthy")
          /\ resp.body.ai_service =
                (IF GatewayProbeSucceeded THEN "healthy" ELSE "unhealthy")
          /\ resp.body.status =
                (IF DatabaseProbeSucceeded /\ GatewayProbeSucceeded
                 THEN "healthy" ELSE "degraded")

\* the storage probe raised, the gateway probe succeeded: 200 and degraded
C15_Witness ==
    /\ resp.op = "health"
    /\ arg.select_one.kind = "raises"
    /\ arg.models_reply = HttpReply(200)
    /\ resp.status = 200
    /\ resp.body.status = "degraded"
    /\ resp.body.ai_service = "healthy"

\* C16: check_health returns true exactly when the model-listing request
\* completes with HTTP 200, returns false for any other status and for any
\* exception (network error, timeout), and never raises.
C16_ProbeTrueIff200 ==
    (handler # None /\ handler.at = "respond") =>
        /\ handler.probe.ok
        /\ handler.probe.value = TRUE <=> GatewayProbeSucceeded
        /\ handler.probe.value = FALSE <=> ~GatewayProbeSucceeded

\* the probe has answered false to a 2xx status other than 200
C16_Witness ==
    /\ handler # None
    /\ handler.at = "respond"
    /\ arg.models_reply = HttpReply(204)
    /\ handler.probe = Ok(FALSE)

\* the probe has answered false to a timeout
C16_TimeoutIsFalse ==
    (handler # None /\ handler.at = "respond" /\ arg.models_reply = TimeoutReply) =>
        handler.probe = Ok(FALSE)

-----------------------------------------------------------------------------
(* GET /api/stats (routers/analytics.py 15-134): five queries, each         *)
(* awaited, each answered from the storage state of the moment it runs       *)
(* (storage gives the reads of one session no common snapshot).  Time is     *)
(* counted in ticks, TicksPerDay of them to a calendar day; a date is a day  *)
(* number; an average is a sum and a count until it is rounded.              *)

TicksPerDay == 2
RecentDays == 7
TopCategoriesLimit == 10

\* func.date(created_at), strftime('%Y-%m-%d')
date(t) == t \div TicksPerDay

\* timedelta(days=n)
timedelta_days(n) == n * TicksPerDay

RECURSIVE SumOver(_, _, _)
SumOver(d, S, field) ==
    IF S = {} THEN 0
    ELSE LET i == CHOOSE x \in S : TRUE
         IN d[i][field] + SumOver(d, S \ {i}, field)

\* round(avg, 2) if avg else 0, of the average sum / n of confidences held
\* in hundredths; NULL (n = 0) and 0.0 both give 0.  An exact half goes to
\* the even neighbour.
Round2(sum, n) ==
    IF n = 0 THEN 0
    ELSE LET q == sum \div n
             r == sum % n
         IN IF 2 * r < n THEN q
            ELSE IF 2 * r > n THEN q + 1
            ELSE IF q % 2 = 0 THEN q ELSE q + 1

\* lines 21-23: select count(*)
total_feedback(d) == Cardinality(DOMAIN d)

\* lines 25-32: select sentiment, count(id) group by sentiment
sentiment_rows(d) ==
    [s \in { d[i].sentiment : i \in DOMAIN d } |->
        Cardinality({ i \in DOMAIN d : d[i].sentiment = s })]

\* lines 34-41: the three keys at 0, then one assignment per row
sentiment_distribution(rows) ==
    [s \in Sentiments \cup DOMAIN rows |-> IF s \in DOMAIN rows THEN rows[s] ELSE 0]

\* lines 43-64: group by category, order by count desc, limit 10; the order
\* of categories of equal count is storage's choice
category_row(d, c) ==
    LET S == { i \in DOMAIN d : d[i].category = c }
    IN [category |-> c,
        count |-> Cardinality(S),
        avg_confidence |-> Round2(SumOver(d, S, "category_confidence"), Cardinality(S))]

top_categories(d) ==
    LET cats == { d[i].category : i \in DOMAIN d }
    IN { [k \in 1 .. (IF Len(o) < TopCategoriesLimit THEN Len(o) ELSE TopCategoriesLimit)
            |-> category_row(d, o[k])] :
           o \in { p \in Orderings(cats) :
                     \A i, j \in 1 .. Len(p) :
                        i < j => category_row(d, p[i]).count >= category_row(d, p[j]).count } }

\* line 67
seven_days_ago(now) == now - timedelta_days(RecentDays)

\* lines 70-82: where created_at >= seven_days_ago group by date(created_at)
daily_rows(d, since) ==
    LET S == { i \in DOMAIN d : d[i].created_at >= since }
    IN [day \in { date(d[i].created_at) : i \in S } |->
           Cardinality({ i \in S : date(d[i].created_at) = day })]

\* lines 84-93: the rows, then 0 for each of the last 7 dates not among them
recent_activity(rows, now) ==
    [day \in DOMAIN rows \cup { date(now) - i : i \in 0 .. (RecentDays - 1) } |->
        IF day \in DOMAIN rows THEN rows[day] ELSE 0]

\* lines 95-126
average_confidence(d) ==
    LET of(s) == { i \in DOMAIN d : d[i].sentiment = s }
        avg(s) == Round2(SumOver(d, of(s), "sentiment_confidence"), Cardinality(of(s)))
    IN [sentiment_positive |-> avg("positive"),
        sentiment_neutral |-> avg("neutral"),
        sentiment_negative |-> avg("negative"),
        category |-> Round2(SumOver(d, DOMAIN d, "category_confidence"),
                            Cardinality(DOMAIN d))]

StatsResponse(total, distribution, categories, activity, confidence) ==
    [shape |-> "stats",
     total_feedback |-> total,
     sentiment_distribution |-> distribution,
     top_categories |-> categories,
     recent_activity |-> activity,
     average_confidence |-> confidence]

\* the handler between two awaits
StatsTotal ==
    /\ resp.op = "none"
    /\ handler = None
    /\ handler' = [kind |-> "stats", at |-> "sentiment",
                   called |-> clock,
                   total_feedback |-> total_feedback(db)]
    /\ UNCHANGED <<db, clock, hashSeed, gwCalls, resp, pureVars, aiVars>>

StatsSentiment ==
    /\ handler # None
    /\ handler.at = "sentiment"
    /\ handler' = [kind |-> "stats", at |-> "category",
                   called |-> handler.called,
                   total_feedback |-> handler.total_feedback,
                   sentiment_distribution |-> sentiment_distribution(sentiment_rows(db))]
    /\ UNCHANGED <<db, clock, hashSeed, gwCalls, resp, pureVars, aiVars>>

StatsCategories ==
    /\ handler # None
    /\ handler.at = "category"
    /\ \E rows \in top_categories(db) :
          handler' = [kind |-> "stats", at |-> "daily",
                      called |-> handler.called,
                      total_feedback |-> handler.total_feedback,
                      sentiment_distribution |-> handler.sentiment_distribution,
                      top_categories |-> rows,
                      seven_days_ago |-> seven_days_ago(clock)]
    /\ UNCHANGED <<db, clock, hashSeed, gwCalls, resp, pureVars, aiVars>>

StatsDaily ==
    /\ handler # None
    /\ handler.at = "daily"
    /\ handler' = [kind |-> "stats", at |-> "confidence",
                   called |-> handler.called,
                   total_feedback |-> handler.total_feedback,
                   sentiment_distribution |-> handler.sentiment_distribution,
                   top_categories |-> handler.top_categories,
                   filled |-> clock,
                   recent_activity |->
                       recent_activity(daily_rows(db, handler.seven_days_ago), clock)]
    /\ UNCHANGED <<db, clock, hashSeed, gwCalls, resp, pureVars, aiVars>>

StatsConfidence ==
    /\ handler # None
    /\ handler.at = "confidence"
    /\ resp' = [op |-> "stats",
                req |-> [called |-> handler.called, filled |-> handler.filled],
                status |-> 200,
                body |-> StatsResponse(handler.total_feedback,
                                       handler.sentiment_distribution,
                                       handler.top_categories,
                                       handler.recent_activity,
                                       average_confidence(db))]
    /\ handler' = None
    /\ UNCHANGED <<db, clock, hashSeed, gwCalls, pureVars, aiVars>>

GetStatistics ==
    \/ StatsTotal
    \/ StatsSentiment
    \/ StatsCategories
    \/ StatsDaily
    \/ StatsConfidence

\* the whole handler on one storage state at one time
get_statistics(d, now) ==
    { [status |-> 200,
       body |-> StatsResponse(total_feedback(d),
                              sentiment_distribution(sentiment_rows(d)),
                              rows,
                              recent_activity(daily_rows(d, seven_days_ago(now)), now),
                              average_confidence(d))] :
        rows \in top_categories(d) }

StatsProfiles ==
    { [sentiment |-> "positive", sentiment_confidence |-> 96,
       category |-> Lit(<<"U", "X">>), category_confidence |-> 88,
       model_used |-> "qwen/qwen3-235b-a22b-07-25:free"],
      [sentiment |-> "negative", sentiment_confidence |-> 84,
       category |-> Lit(<<"S", "h", "i", "p">>), category_confidence |-> 76,
       model_used |-> "qwen/qwen3-235b-a22b-07-25:free"],
      [sentiment |-> "neutral", sentiment_confidence |-> 50,
       category |-> Lit(<<"U", "X">>), category_confidence |-> 60,
       model_used |-> "qwen/qwen3-235b-a22b-07-25:free"] }

StatsEntry(profile, now) == FeedbackEntry(Lit(<<"h", "i">>), profile, <<>>, 12, now)

-----------------------------------------------------------------------------
(* SpecStats: GET /api/stats while other requests commit: a POST /analyze   *)
(* that stores an entry, a DELETE that removes one; a commit takes a tick.   *)

MaxStatsEntries == 2

\* the ticks that pass, a commit taking one
MaxTicks == 2

\* the first tick of the day the requests are made on
Today0 == (RecentDays + 1) * TicksPerDay

InitStats ==
    /\ db = <<>>
    /\ clock = Today0
    /\ hashSeed = 0
    /\ gwCalls = 0
    /\ resp = [op |-> "none", status |-> 0]
    /\ handler = None
    /\ arg = None
    /\ ret = Pending
    /\ AIIdle

\* another request's POST /api/feedback/analyze commits
ConcurrentCreate ==
    /\ clock < Today0 + MaxTicks
    /\ NextId(db) <= MaxStatsEntries
    /\ \E profile \in StatsProfiles :
          db' = insert_row(db, NextId(db), StatsEntry(profile, clock))
    /\ clock' = clock + 1
    /\ UNCHANGED <<hashSeed, gwCalls, resp, handler, pureVars, aiVars>>

\* another request's DELETE /api/feedback/{id} commits
ConcurrentDelete ==
    /\ clock < Today0 + MaxTicks
    /\ \E id \in DOMAIN db : db' = delete_row(db, id)
    /\ clock' = clock + 1
    /\ UNCHANGED <<hashSeed, gwCalls, resp, handler, pureVars, aiVars>>

NextStats ==
    \/ GetStatistics
    \/ ConcurrentCreate
    \/ ConcurrentDelete

SpecStats == InitStats /\ [][NextStats]_vars

RECURSIVE SumOfCounts(_)
SumOfCounts(f) ==
    IF DOMAIN f = {} THEN 0
    ELSE LET k == CHOOSE x \in DOMAIN f : TRUE
         IN f[k] + SumOfCounts([x \in DOMAIN f \ {k} |-> f[x]])

\* C17: in every stats result the sentiment distribution has exactly the
\* keys positive, neutral and negative, each with a non-negative integer
\* count, and the three counts sum to the reported total feedback count,
\* also when other requests create or delete entries while the stats are
\* being computed.
C17_DistributionSumsToTotal ==
    resp.op = "stats" =>
        LET dist == resp.body.sentiment_distribution
        IN /\ DOMAIN dist = Sentiments
           /\ \A s \in DOMAIN dist : dist[s] \in Nat
           /\ SumOfCounts(dist) = resp.body.total_feedback

\* the keys and the counts' types hold whatever is committed meanwhile
C17_DistributionKeys ==
    resp.op = "stats" =>
        /\ DOMAIN resp.body.sentiment_distribution = Sentiments
        /\ \A s \in Sentiments : resp.body.sentiment_distribution[s] \in Nat

-----------------------------------------------------------------------------
(* SpecActivity: GET /api/stats on a storage state drawn at the start, its  *)
(* entries created on the days around the edge of the 7-day window, while   *)
(* time passes.                                                              *)

ActivityDays ==
    { date(Today0) - RecentDays - 1, date(Today0) - RecentDays,
      date(Today0) - RecentDays + 1, date(Today0) }

ActivityStamps == { t \in 0 .. Today0 : date(t) \in ActivityDays }

ActivityProfile == CHOOSE p \in StatsProfiles : p.sentiment = "positive"

ActivityStores ==
    UNION { { [i \in 1 .. n |-> StatsEntry(ActivityProfile, stamp[i])] :
                stamp \in { st \in [1 .. n -> ActivityStamps] :
                              \A i, j \in 1 .. n : i < j => st[i] <= st[j] } } :
            n \in 0 .. MaxStatsEntries }

InitActivity ==
    /\ db \in ActivityStores
    /\ clock = Today0
    /\ hashSeed = 0
    /\ gwCalls = 0
    /\ resp = [op |-> "none", status |-> 0]
    /\ handler = None
    /\ arg = None
    /\ ret = Pending
    /\ AIIdle

Tick ==
    /\ clock < Today0 + MaxTicks
    /\ clock' = clock + 1
    /\ UNCHANGED <<db, hashSeed, gwCalls, resp, handler, pureVars, aiVars>>

NextActivity ==
    \/ GetStatistics
    \/ Tick

SpecActivity == InitActivity /\ [][NextActivity]_vars

\* the dates of the window as seen when the missing days are filled in
WindowDates(now) == { date(now) - i : i \in 0 .. (RecentDays - 1) }

\* C18: for every storage state and every call time the recent-activity map
\* has exactly 7 keys: the calendar dates of today and the 6 preceding days,
\* each mapped to the number of entries created on that date, 0 for a date
\* with no entries; no date outside that window is ever a key.
C18_ActivityWindow ==
    resp.op = "stats" =>
        LET activity == resp.body.recent_activity
        IN /\ DOMAIN activity = WindowDates(resp.req.filled)
           /\ Cardinality(DOMAIN activity) = RecentDays
           /\ \A day \in DOMAIN activity :
                 activity[day] =
                    Cardinality({ i \in DOMAIN db : date(db[i].created_at) = day })

\* the dates of the window are always keys, with the count of their entries
C18_WindowDatesCounted ==
    resp.op = "stats" =>
        \A day \in WindowDates(resp.req.filled) :
            /\ day \in DOMAIN resp.body.recent_activity
            /\ resp.body.recent_activity[day] =
                  Cardinality({ i \in DOMAIN db : date(db[i].created_at) = day })

\* the one key there can be besides: the date 7 days before the call
C18_AtMostOneDayMore ==
    resp.op = "stats" =>
        DOMAIN resp.body.recent_activity \subseteq
            WindowDates(resp.req.filled) \cup { date(resp.req.called) - RecentDays,
                                                date(resp.req.filled) - RecentDays }

-----------------------------------------------------------------------------
(* SpecFrame: every operation there is on the stored entries: the feedback *)
(* routes of Spec, the service's tag update, the list route, GET /api/stats *)
(* and GET /api/health, the last three taken in one step each.              *)

\* GET /api/health as a whole
health_check(select_one, models_reply, aclose, now) ==
    [status |-> 200,
     body |-> HealthResponse(db_status(select_one),
                             ai_status(check_health(models_reply), aclose),
                             now)]

FrameQueries ==
    [page : {1}, page_size : {DefaultPageSize}, sentiment : {"", "POSITIVE"},
     category : {<<>>}, search : {<<>>}, tag : {<<>>}]

ListStored ==
    \E q \in FrameQueries :
        \E order \in created_at_desc(db, Matching(db, q)) :
            Respond("list", q,
                    Effect(get_feedback_list(q.page, q.page_size, q, order, db), db, 0))

GetStats ==
    \E r \in get_statistics(db, clock) :
        Respond("stats", [called |-> clock, filled |-> clock], Effect(r, db, 0))

GetHealth ==
    \E select_one \in SelectOneOutcomes, models_reply \in {HttpReply(200), TimeoutReply} :
        Respond("health", [select_one |-> select_one.kind],
                Effect(health_check(select_one, models_reply, "ok", clock), db, 0))

NextFrame ==
    \/ PostAnalyze
    \/ GetFeedback
    \/ PutTags
    \/ DeleteFeedback
    \/ ServiceUpdateTags
    \/ ListStored
    \/ GetStats
    \/ GetHealth

SpecFrame == Init /\ [][NextFrame]_vars

\* the fields of an entry that are fixed when it is created
Immutable(e) ==
    [text |-> e.text,
     sentiment |-> e.sentiment,
     sentiment_confidence |-> e.sentiment_confidence,
     category |-> e.category,
     category_confidence |-> e.category_confidence,
     created_at |-> e.created_at,
     analysis_duration_ms |-> e.analysis_duration_ms,
     model_used |-> e.model_used]

TagUpdates == {"put", "service_update_tags"}
Reads == {"get", "list", "stats", "health"}

\* C14: once an entry is created no operation changes its id, text,
\* sentiment, sentiment_confidence, category, category_confidence,
\* created_at, analysis_duration_ms or model_used: the tag update is the only
\* operation that modifies a stored entry and it changes only tags and
\* updated_at of the addressed entry; get, list, stats and health change
\* nothing; delete is the only operation that removes an entry and it
\* removes only the addressed one.
C14_Frame ==
    [][ /\ \A i \in DOMAIN db \cap DOMAIN db' : Immutable(db'[i]) = Immutable(db[i])
        /\ \A i \in DOMAIN db \cap DOMAIN db' :
              db'[i] # db[i] => resp'.op \in TagUpdates /\ i = resp'.req.id
        /\ resp'.op \in Reads => db' = db
        /\ DOMAIN db \ DOMAIN db' # {} =>
              /\ resp'.op = "delete"
              /\ DOMAIN db \ DOMAIN db' = {resp'.req.id}
              /\ \A i \in DOMAIN db' : i \in DOMAIN db /\ db'[i] = db[i]
      ]_vars

\* a tag update has changed an entry that was created at an earlier time
C14_Witness ==
    /\ resp.op = "put"
    /\ resp.status = 200
    /\ resp.req.id \in DOMAIN db
    /\ db[resp.req.id].updated_at # <<>>
    /\ db[resp.req.id].updated_at # <<db[resp.req.id].created_at>>
    /\ db[resp.req.id].tags # <<>>

-----------------------------------------------------------------------------
(* The pair of calls of one attempt (services/ai_service.py 42-53), under   *)
(* SpecAI.                                                                   *)

InFlight == { k \in 1 .. Len(calls) : calls[k].st = "inflight" }

\* both calls of the attempt have been created when gather is awaited
C21_BothStarted ==
    pc = "gather" =>
        /\ Len(calls) = 2 * pos
        /\ calls[2 * pos - 1].kind = "sentiment" /\ calls[2 * pos - 1].pos = pos
        /\ calls[2 * pos].kind = "category" /\ calls[2 * pos].pos = pos

\* C21: within one model attempt both calls are started before either
\* result is awaited, and analyze_feedback does not proceed (to returning,
\* to the next model, or to raising) until both calls of the pair have
\* completed; no gateway call of an attempt is still in flight when the next
\* attempt starts or when analyze_feedback has finished.
C21_PairAwaited ==
    /\ C21_BothStarted
    /\ pc \in {"loop", "done"} => InFlight = {}

\* an attempt returns only with both calls completed, and a failed call
\* fails its attempt
C21_ReturnAwaitsBoth ==
    result.kind = "return" =>
        \A k \in 1 .. Len(calls) : calls[k].pos = pos => calls[k].st = "ok"

-----------------------------------------------------------------------------
(* SpecPut: two PUT /api/feedback/{id}/tags requests on one stored entry    *)
(* (routers/feedback.py 154-175), each in its own session, interleaved at   *)
(* their awaits: the lookup, the commit, the refresh.  The unit of work     *)
(* writes the row at commit only if the assigned tags differ from the tags  *)
(* the session loaded.                                                       *)

Writers == {1, 2}

TagPayloads == { <<>>, <<TagA>>, <<TagB>> }

\* session.commit() after feedback.tags = tags on a row loaded with tags
\* loaded: an UPDATE of tags and updated_at, or nothing
flush_update(d, id, loaded, tags, now) ==
    IF tags = loaded \/ id \notin DOMAIN d THEN d
    ELSE [d EXCEPT ![id] = [d[id] EXCEPT !.tags = tags, !.updated_at = <<now>>]]

InitPut ==
    /\ \E t \in TagPayloads :
          db = insert_row(<<>>, 1, FeedbackEntry(GoodText, ActivityProfile, t, 12, 0))
    /\ clock = 1
    /\ arg \in [Writers -> TagPayloads]
    /\ handler = [w \in Writers |-> [at |-> "lookup"]]
    /\ hashSeed \in HashOrders
    /\ gwCalls = 0
    /\ resp = [op |-> "none", status |-> 0]
    /\ ret = Pending
    /\ AIIdle

\* how many writers have committed
Committed == Cardinality({ w \in Writers : handler[w].at \in {"refresh", "done"} })

\* lines 161-166: the entry is looked up
PutLookup(w) ==
    /\ handler[w].at = "lookup"
    /\ handler' = [handler EXCEPT ![w] = [at |-> "commit", loaded |-> db[1].tags]]
    /\ UNCHANGED <<db, clock, hashSeed, gwCalls, resp, pureVars, aiVars>>

\* lines 169-171: the tags are assigned and the session committed
PutCommit(w) ==
    /\ handler[w].at = "commit"
    /\ LET tags == FeedbackUpdate_tags(arg[w], hashSeed).value
       IN /\ db' = flush_update(db, 1, handler[w].loaded, tags, clock)
          /\ handler' = [handler EXCEPT ![w] = [at |-> "refresh",
                                                loaded |-> handler[w].loaded,
                                                assigned |-> tags,
                                                order |-> Committed + 1]]
    /\ clock' = clock + 1
    /\ UNCHANGED <<hashSeed, gwCalls, resp, pureVars, aiVars>>

\* lines 172-175: the row is read again and returned
PutRefresh(w) ==
    /\ handler[w].at = "refresh"
    /\ handler' = [handler EXCEPT ![w] = [at |-> "done",
                                          loaded |-> handler[w].loaded,
                                          assigned |-> handler[w].assigned,
                                          order |-> handler[w].order,
                                          response |-> [status |-> 200,
                                                        body |-> FeedbackResponse(1, db[1])]]]
    /\ resp' = [op |-> "put", req |-> [id |-> 1, writer |-> w, tags |-> arg[w]],
                status |-> 200, body |-> FeedbackResponse(1, db[1])]
    /\ UNCHANGED <<db, clock, hashSeed, gwCalls, pureVars, aiVars>>

NextPut ==
    \/ \E w \in Writers : PutLookup(w)
    \/ \E w \in Writers : PutCommit(w)
    \/ \E w \in Writers : PutRefresh(w)

SpecPut == InitPut /\ [][NextPut]_vars

BothDone == \A w \in Writers : handler[w].at = "done"

LaterCommitter == CHOOSE w \in Writers : handler[w].order = 2

\* C22: two concurrent PUT /{id}/tags requests on the same existing id are
\* not serialised and both succeed; once both have completed, the stored
\* tags equal exactly one of the two request payloads, that of the later
\* committer, and are never a mixture of both payloads.
C22_LaterCommitterWins ==
    BothDone =>
        /\ \A w \in Writers : handler[w].response.status = 200
        /\ db[1].tags = handler[LaterCommitter].assigned

\* both succeed and the stored tags are those one of the two assigned
C22_OnePayloadStored ==
    BothDone =>
        /\ \A w \in Writers : handler[w].response.status = 200
        /\ \E w \in Writers : db[1].tags = handler[w].assigned

\* the later committer's tags are stored whenever its commit had a row to
\* write, that is whenever they differ from the tags it had looked up
C22_LaterWriterWins ==
    (BothDone /\ handler[LaterCommitter].assigned # handler[LaterCommitter].loaded) =>
        db[1].tags = handler[LaterCommitter].assigned

-----------------------------------------------------------------------------
(* SpecSession: get_async_session (database.py 28-38) around a handler: the *)
(* session is opened, the handler runs at the yield and leaves the session  *)
(* with or without unwritten changes, returning or raising; then commit,    *)
(* rollback and close as the try statement orders them.  What the handler   *)
(* does and whether the commit fails are drawn at the start.                *)

CancelledError == [exc |-> "CancelledError"]

\* the errors except Exception catches: CancelledError is a BaseException
IsException(e) == e.exc # "CancelledError"

HandlerOutcomes ==
    { [kind |-> "returns"] } \cup
    { [kind |-> "raises", error |-> e] : e \in {NotFound, StorageError, CancelledError} }

\* A mutant: the session is committed whatever the handler did.
after_yield_AlwaysCommits(outcome) == "commit"

\* lines 31-38: where control goes from the yield
after_yield(outcome) ==
    IF outcome.kind = "returns" THEN "commit"
    ELSE IF IsException(outcome.error) THEN "rollback"
    ELSE "close"

InitSession ==
    /\ \E t \in TagPayloads :
          db = insert_row(<<>>, 1, FeedbackEntry(GoodText, ActivityProfile, t, 12, 0))
    /\ clock = 1
    /\ arg \in [handler : HandlerOutcomes, commit : {"ok", "raises"}, tags : TagPayloads]
    /\ handler = [kind |-> "session", at |-> "enter"]
    /\ hashSeed = 0
    /\ gwCalls = 0
    /\ resp = [op |-> "none", status |-> 0]
    /\ ret = Pending
    /\ AIIdle

Session(at, tx, pending, error, log) ==
    [kind |-> "session", at |-> at, opened |-> handler.opened, tx |-> tx,
     pending |-> pending, error |-> error, log |-> log]

\* line 30 and the yield: the session is opened and the handler runs on it,
\* assigning tags to the stored entry without committing
SessionYield ==
    /\ handler.at = "enter"
    /\ handler' = [kind |-> "session", at |-> after_yield(arg.handler),
                   opened |-> db, tx |-> "active",
                   pending |-> flush_update(db, 1, db[1].tags, arg.tags, clock),
                   error |-> IF arg.handler.kind = "raises" THEN arg.handler.error
                             ELSE None,
                   log |-> <<>>]
    /\ UNCHANGED <<db, clock, hashSeed, gwCalls, resp, pureVars, aiVars>>

\* line 33: the commit writes the changes, or fails and goes to the except
SessionCommit ==
    /\ handler.at = "commit"
    /\ IF arg.commit = "ok"
       THEN /\ db' = handler.pending
            /\ handler' = Session("close", "committed", handler.pending, handler.error,
                                  Append(handler.log, "commit"))
       ELSE /\ db' = db
            /\ handler' = Session("rollback", "active", handler.pending, StorageError,
                                  Append(handler.log, "commit"))
    /\ UNCHANGED <<clock, hashSeed, gwCalls, resp, pureVars, aiVars>>

\* lines 34-36: rollback, then the error is raised again
SessionRollback ==
    /\ handler.at = "rollback"
    /\ handler' = Session("close", "rolled back", db, handler.error,
                          Append(handler.log, "rollback"))
    /\ UNCHANGED <<db, clock, hashSeed, gwCalls, resp, pureVars, aiVars>>

\* lines 37-38: close ends a transaction still open by rolling it back; the
\* error, if any, leaves the generator
SessionClose ==
    /\ handler.at = "close"
    /\ handler' = Session("exited",
                          IF handler.tx = "active" THEN "rolled back" ELSE handler.tx,
                          IF handler.tx = "active" THEN db ELSE handler.pending,
                          handler.error,
                          Append(handler.log, "close"))
    /\ resp' = [op |-> "session", req |-> arg, status |-> 0,
                body |-> [shape |-> "raised", exc |-> handler.error]]
    /\ UNCHANGED <<db, clock, hashSeed, gwCalls, pureVars, aiVars>>

NextSession ==
    \/ SessionYield
    \/ SessionCommit
    \/ SessionRollback
    \/ SessionClose

SpecSession == InitSession /\ [][NextSession]_vars

HandlerRaised == arg.handler.kind = "raises"
CommitRaised == arg.handler.kind = "returns" /\ arg.commit = "raises"

\* C23: for every request using get_async_session, if the handler completes
\* without raising the session is committed; if the handler (or the commit)
\* raises, the session is rolled back and the same error is re-raised; on
\* every path the session is closed, after the commit or rollback, and it is
\* never committed after an error.
C23_SessionDiscipline ==
    /\ (handler.at # "enter" /\ HandlerRaised) =>
          \A k \in 1 .. Len(handler.log) : handler.log[k] # "commit"
    /\ handler.at = "exited" =>
          /\ handler.log[Len(handler.log)] = "close"
          /\ \A k \in 1 .. (Len(handler.log) - 1) : handler.log[k] # "close"
          /\ handler.tx # "active"
          /\ IF HandlerRaised
             THEN /\ handler.tx = "rolled back"
                  /\ db = handler.opened
                  /\ handler.error = arg.handler.error
             ELSE IF CommitRaised
             THEN /\ handler.tx = "rolled back"
                  /\ handler.log = <<"commit", "rollback", "close">>
                  /\ db = handler.opened
                  /\ handler.error = StorageError
             ELSE /\ handler.tx = "committed"
                  /\ handler.log = <<"commit", "close">>
                  /\ db = flush_update(handler.opened, 1, handler.opened[1].tags,
                                       arg.tags, 1)
                  /\ handler.error = None

\* the commit failed on changed tags: rolled back, closed, the error raised
C23_Witness ==
    /\ handler.at = "exited"
    /\ CommitRaised
    /\ arg.tags # db[1].tags
    /\ handler.log = <<"commit", "rollback", "close">>
    /\ resp.body.exc = StorageError

\* rollback() is called for every error except Exception catches; a
\* cancellation is rolled back by the close alone
C23_RollbackCalled ==
    (handler.at = "exited" /\ HandlerRaised) =>
        (handler.log = <<"rollback", "close">> <=> IsException(arg.handler.error))

-----------------------------------------------------------------------------
(* SpecPool: the connection pools of the OpenRouterClients                  *)
(* (services/ai_service.py 19-28).  __init__ creates the pool, __aenter__   *)
(* returns the client as it is, __aexit__ closes the pool.  The analyze and *)
(* health routes construct a client in the async with that scopes it;       *)
(* FeedbackService constructs one in its __init__                           *)
(* (services/feedback_service.py 18-20) and enters it in each               *)
(* analyze_and_save_feedback (line 32).                                     *)

MaxPools == 2
MaxPoolCalls == 2

PoolOwners == {"analyze", "health", "service"}

\* httpx.AsyncClient(timeout=30.0)
AsyncClient(owner, scope) ==
    [owner |-> owner, st |-> "open", scope |-> scope, calls |-> 0, late |-> 0,
     done |-> FALSE]

\* a request on the client: a closed client refuses it
httpx_send(pool) ==
    IF pool.st = "open" THEN [pool EXCEPT !.calls = @ + 1]
    ELSE [pool EXCEPT !.late = @ + 1]

\* __aexit__: await self.client.aclose()
aexit(pool) == [pool EXCEPT !.st = "closed", !.scope = "left"]

InitPool ==
    /\ handler = [kind |-> "pools", pools |-> <<>>]
    /\ db = <<>>
    /\ clock = 0
    /\ hashSeed = 0
    /\ gwCalls = 0
    /\ resp = [op |-> "none", status |-> 0]
    /\ arg = None
    /\ ret = Pending
    /\ AIIdle

SetPools(ps) ==
    /\ handler' = [kind |-> "pools", pools |-> ps]
    /\ UNCHANGED <<db, clock, hashSeed, gwCalls, resp, pureVars, aiVars>>

\* async with OpenRouterClient() as ai_client: in a route
RouteEnter ==
    /\ Len(handler.pools) < MaxPools
    /\ \E owner \in {"analyze", "health"} :
          SetPools(Append(handler.pools, AsyncClient(owner, "entered")))

\* FeedbackService(db_session)
ServiceConstruct ==
    /\ Len(handler.pools) < MaxPools
    /\ SetPools(Append(handler.pools, AsyncClient("service", "none")))

\* async with self.ai_client as client: in analyze_and_save_feedback
ServiceEnter ==
    \E i \in 1 .. Len(handler.pools) :
        /\ handler.pools[i].owner = "service"
        /\ handler.pools[i].scope # "entered"
        /\ ~handler.pools[i].done
        /\ SetPools([handler.pools EXCEPT ![i].scope = "entered"])

\* a gateway call inside the scope
GatewayCall ==
    \E i \in 1 .. Len(handler.pools) :
        /\ handler.pools[i].scope = "entered"
        /\ handler.pools[i].calls + handler.pools[i].late < MaxPoolCalls
        /\ SetPools([handler.pools EXCEPT ![i] = httpx_send(@)])

\* the scope is left, by return or by exception; a route's request ends
ScopeExit ==
    \E i \in 1 .. Len(handler.pools) :
        /\ handler.pools[i].scope = "entered"
        /\ SetPools([handler.pools EXCEPT
                       ![i] = [aexit(@) EXCEPT !.done = (@ \/ handler.pools[i].owner # "service")]])

\* the request that constructed the service ends
ServiceDone ==
    \E i \in 1 .. Len(handler.pools) :
        /\ handler.pools[i].owner = "service"
        /\ handler.pools[i].scope # "entered"
        /\ ~handler.pools[i].done
        /\ SetPools([handler.pools EXCEPT ![i].done = TRUE])

NextPool ==
    \/ RouteEnter
    \/ ServiceConstruct
    \/ ServiceEnter
    \/ GatewayCall
    \/ ScopeExit
    \/ ServiceDone

SpecPool == InitPool /\ [][NextPool]_vars

PoolScoped(pool) ==
    /\ pool.st = "open" <=> pool.scope = "entered"
    /\ pool.done => pool.st = "closed"
    /\ pool.late = 0

\* C24: every pool an OpenRouterClient owns is opened when its usage scope
\* is entered and closed when that scope is left, for every place a client
\* is constructed; after a request has finished no pool created for it is
\* still open, and no gateway call is ever issued on a pool that has already
\* been closed.
C24_PoolsScoped ==
    \A i \in 1 .. Len(handler.pools) : PoolScoped(handler.pools[i])

\* the pools of the two routes are scoped
C24_RoutePoolsScoped ==
    \A i \in 1 .. Len(handler.pools) :
        handler.pools[i].owner # "service" => PoolScoped(handler.pools[i])

\* a service that is never asked to analyze leaves its pool open
C24_IdleServiceLeaks ==
    \A i \in 1 .. Len(handler.pools) :
        (/\ handler.pools[i].owner = "service"
         /\ handler.pools[i].done
         /\ handler.pools[i].scope = "none") => handler.pools[i].st = "open"

\* a call on a closed pool is a service's call in a second scope
C24_LateCallsAreServices ==
    \A i \in 1 .. Len(handler.pools) :
        handler.pools[i].late > 0 => handler.pools[i].owner = "service"

-----------------------------------------------------------------------------
(* SpecEquiv: the statistics of GET /api/stats and those of AnalyticsService *)
(* (services/analytics_service.py 19-142) on one storage state, drawn at the *)
(* start with rows as storage can hold them: the sentiment column is a plain *)
(* string, a confidence can be 0.  Numbers are compared by value.            *)

\* lines 25-47: only the three keys are assigned
AnalyticsService_get_sentiment_distribution(rows) ==
    [s \in Sentiments |-> IF s \in DOMAIN rows THEN rows[s] ELSE 0]

\* round(avg or 0, 2)
round_or_zero(sum, n) ==
    IF n = 0 \/ sum = 0 THEN Round2(0, 1) ELSE Round2(sum, n)

\* lines 110-142
AnalyticsService_get_average_confidence_scores(d) ==
    LET of(s) == { i \in DOMAIN d : d[i].sentiment = s }
        avg(s) == round_or_zero(SumOver(d, of(s), "sentiment_confidence"),
                                Cardinality(of(s)))
    IN [sentiment_positive |-> avg("positive"),
        sentiment_neutral |-> avg("neutral"),
        sentiment_negative |-> avg("negative"),
        category |-> round_or_zero(SumOver(d, DOMAIN d, "category_confidence"),
                                   Cardinality(DOMAIN d))]

\* the five methods on storage d at time now, rows being the category rows
\* in the order storage gives them
AnalyticsService(d, now, rows) ==
    [total_feedback |-> total_feedback(d),
     sentiment_distribution |-> AnalyticsService_get_sentiment_distribution(sentiment_rows(d)),
     top_categories |-> rows,
     recent_activity |-> recent_activity(daily_rows(d, seven_days_ago(now)), now),
     average_confidence |-> AnalyticsService_get_average_confidence_scores(d)]

EquivProfiles ==
    StatsProfiles \cup
    { [sentiment |-> "mixed", sentiment_confidence |-> 70,
       category |-> Lit(<<"U", "X">>), category_confidence |-> 60,
       model_used |-> "qwen/qwen3-235b-a22b-07-25:free"],
      [sentiment |-> "neutral", sentiment_confidence |-> 0,
       category |-> Lit(<<"S", "h", "i", "p">>), category_confidence |-> 0,
       model_used |-> "qwen/qwen3-235b-a22b-07-25:free"] }

EquivStamps == { seven_days_ago(Today0), Today0 }

EquivStores ==
    UNION { { [i \in 1 .. n |-> StatsEntry(profile[i], stamp[i])] :
                profile \in [1 .. n -> EquivProfiles],
                stamp \in { st \in [1 .. n -> EquivStamps] :
                              \A i, j \in 1 .. n : i < j => st[i] <= st[j] } } :
            n \in 0 .. MaxStatsEntries }

InitEquiv ==
    /\ db \in EquivStores
    /\ clock = Today0
    /\ arg \in top_categories(db)
    /\ handler = [kind |-> "equiv", route |-> None, service |-> None]
    /\ hashSeed = 0
    /\ gwCalls = 0
    /\ resp = [op |-> "none", status |-> 0]
    /\ ret = Pending
    /\ AIIdle

\* GET /api/stats
RouteStatistics ==
    /\ handler.route = None
    /\ LET body == StatsResponse(total_feedback(db),
                                 sentiment_distribution(sentiment_rows(db)),
                                 arg,
                                 recent_activity(daily_rows(db, seven_days_ago(clock)), clock),
                                 average_confidence(db))
       IN /\ handler' = [handler EXCEPT !.route = body]
          /\ resp' = [op |-> "stats", req |-> [called |-> clock, filled |-> clock],
                      status |-> 200, body |-> body]
    /\ UNCHANGED <<db, clock, hashSeed, gwCalls, pureVars, aiVars>>

\* the five methods of AnalyticsService(db)
ServiceStatistics ==
    /\ handler.service = None
    /\ handler' = [handler EXCEPT !.service = AnalyticsService(db, clock, arg)]
    /\ UNCHANGED <<db, clock, hashSeed, gwCalls, resp, pureVars, aiVars>>

NextEquiv ==
    \/ RouteStatistics
    \/ ServiceStatistics

SpecEquiv == InitEquiv /\ [][NextEquiv]_vars

BothComputed == handler.route # None /\ handler.service # None

\* C25: for every storage state (including states whose entries carry a
\* sentiment outside the three literals or zero-valued averages) the
\* statistics produced inline by GET /api/stats equal, field by field, those
\* produced by AnalyticsService.
C25_InlineEqualsService ==
    BothComputed =>
        /\ handler.route.total_feedback = handler.service.total_feedback
        /\ handler.route.sentiment_distribution = handler.service.sentiment_distribution
        /\ handler.route.top_categories = handler.service.top_categories
        /\ handler.route.recent_activity = handler.service.recent_activity
        /\ handler.route.average_confidence = handler.service.average_confidence

\* the two agree on every state whose sentiments are the three literals,
\* zero-valued averages included
C25_EqualOnStoredSentiments ==
    (BothComputed /\ \A i \in DOMAIN db : db[i].sentiment \in Sentiments) =>
        C25_InlineEqualsService

\* and on every state in all fields but the sentiment distribution
C25_OtherFieldsEqual ==
    BothComputed =>
        /\ handler.route.total_feedback = handler.service.total_feedback
        /\ handler.route.top_categories = handler.service.top_categories
        /\ handler.route.recent_activity = handler.service.recent_activity
        /\ handler.route.average_confidence = handler.service.average_confidence

-----------------------------------------------------------------------------
(* SpecServiceOps: the lookups, tag updates and deletes of FeedbackService  *)
(* (services/feedback_service.py 68-101) on the entries the analyze route   *)
(* stores.                                                                   *)

\* lines 68-72: scalar_one_or_none()
FeedbackService_get_feedback_by_id(id, d) ==
    IF id \in DOMAIN d THEN Effect(Returned(d[id]), d, 0)
    ELSE Effect(Returned(None), d, 0)

\* A mutant: deleting an id that is not stored returns true.
FeedbackService_delete_feedback_Silent(id, d) ==
    IF id \notin DOMAIN d THEN Effect(Returned(TRUE), d, 0)
    ELSE Effect(Returned(TRUE), delete_row(d, id), 0)

\* lines 91-101
FeedbackService_delete_feedback(id, d) ==
    IF id \notin DOMAIN d
    THEN Effect(Raised(NotFoundError(<<"Feedback with ID ", id, " not found">>)), d, 0)
    ELSE Effect(Returned(TRUE), delete_row(d, id), 0)

ServiceGet ==
    \E id \in 1 .. MaxWrites :
        Respond("service_get", [id |-> id], FeedbackService_get_feedback_by_id(id, db))

ServiceDelete ==
    \E id \in 1 .. MaxWrites :
        Respond("service_delete", [id |-> id], FeedbackService_delete_feedback(id, db))

NextServiceOps ==
    \/ PostAnalyze
    \/ ServiceGet
    \/ ServiceUpdateTags
    \/ ServiceDelete

SpecServiceOps == Init /\ [][NextServiceOps]_vars

\* the call raised NotFound for the id it was made on
RaisedNotFound(r) ==
    /\ r.body.shape = "raised"
    /\ r.body.exc.error_code = "NOT_FOUND"
    /\ r.body.exc.status_code = 404
    /\ r.body.exc.message = <<"Feedback with ID ", r.req.id, " not found">>

\* C26: FeedbackService.update_feedback_tags and delete_feedback on an id
\* with no stored entry raise NotFound (code NOT_FOUND, status 404) with
\* message "Feedback with ID {id} not found" and leave storage unchanged;
\* get_feedback_by_id on such an id returns an absent result and never
\* raises; on an existing id, update replaces the tags and delete removes
\* exactly that entry and returns true.
C26_ServiceOps ==
    [][ /\ resp'.op = "service_get" =>
              /\ db' = db
              /\ resp'.body.shape = "returned"
              /\ resp'.body.value = IF resp'.req.id \in DOMAIN db
                                    THEN db[resp'.req.id] ELSE None
        /\ resp'.op = "service_update_tags" =>
              IF resp'.req.id \notin DOMAIN db
              THEN RaisedNotFound(resp') /\ db' = db
              ELSE /\ resp'.body.shape = "returned"
                   /\ DOMAIN db' = DOMAIN db
                   /\ db'[resp'.req.id].tags = resp'.req.tags
                   /\ resp'.body.value = db'[resp'.req.id]
                   /\ \A i \in DOMAIN db \ {resp'.req.id} : db'[i] = db[i]
        /\ resp'.op = "service_delete" =>
              IF resp'.req.id \notin DOMAIN db
              THEN RaisedNotFound(resp') /\ db' = db
              ELSE /\ resp'.body = [shape |-> "returned", value |-> TRUE]
                   /\ DOMAIN db' = DOMAIN db \ {resp'.req.id}
                   /\ \A i \in DOMAIN db' : db'[i] = db[i]
      ]_vars

\* the first of two stored entries has been deleted through the service
C26_Witness ==
    /\ resp.op = "service_delete"
    /\ resp.req.id = 1
    /\ resp.body = [shape |-> "returned", value |-> TRUE]
    /\ DOMAIN db = {2}

-----------------------------------------------------------------------------
(* SpecPagination: validate_pagination (utils/validators.py 47-57) on       *)
(* integers around its thresholds, applied once and then to its own result. *)

PaginationArgs ==
    [page : (0 - Margin) .. (1 + Margin),
     page_size : (0 - Margin) .. (MaxPageSize + Margin)]

InitPagination ==
    /\ arg \in PaginationArgs
    /\ ret = Pending
    /\ AIIdle
    /\ APIIdle

ValidatePagination ==
    /\ ret = Pending
    /\ ret' = [st |-> "done", value |-> validate_pagination(arg.page, arg.page_size)]
    /\ UNCHANGED <<arg, aiVars, apiVars>>

ValidateAgain ==
    /\ ret # Pending
    /\ ret.st = "done"
    /\ ret' = [st |-> "again", first |-> ret.value,
               value |-> validate_pagination(ret.value.page, ret.value.page_size)]
    /\ UNCHANGED <<arg, aiVars, apiVars>>

NextPagination ==
    \/ ValidatePagination
    \/ ValidateAgain

SpecPagination == InitPagination /\ [][NextPagination]_vars

\* C27: validate_pagination(page, page_size) returns (1 if page < 1 else
\* page, 20 if page_size < 1, 100 if page_size > 100, else page_size); its
\* result always satisfies page >= 1 and 1 <= page_size <= 100, and applying
\* it to its own result changes nothing.
C27_PaginationClamp ==
    /\ (ret # Pending /\ ret.st = "done") =>
          /\ ret.value.page = (IF arg.page < 1 THEN 1 ELSE arg.page)
          /\ ret.value.page_size = (IF arg.page_size < 1 THEN 20
                                    ELSE IF arg.page_size > 100 THEN 100
                                    ELSE arg.page_size)
          /\ ret.value.page >= 1
          /\ ret.value.page_size >= 1 /\ ret.value.page_size <= 100
    /\ (ret # Pending /\ ret.st = "again") => ret.value = ret.first

\* a page size above the ceiling was clamped and clamping it again kept it
C27_Witness ==
    /\ ret # Pending
    /\ ret.st = "again"
    /\ arg.page < 1
    /\ arg.page_size > 100
    /\ ret.value = [page |-> 1, page_size |-> 100]

-----------------------------------------------------------------------------
(* SpecTags: the tag cleaning utility (utils/validators.py)                *)

MaxTagLen == 50
MaxTagList == 3

\* a list element: a string, or a value that is not a string
Str(s) == [t |-> "str", s |-> s]
NonStr == [t |-> "int", s |-> <<>>]

\* str.lower()
RECURSIVE lower(_)
lower(s) == IF s = <<>> THEN <<>> ELSE Cat(Rep(LowerCh(s[1].ch), s[1].n), lower(Tail(s)))

\* the first loop: the strings of the list, trimmed, those kept that are not
\* empty and not longer than 50
RECURSIVE cleaned_tags(_)
cleaned_tags(tags) ==
    IF tags = <<>> THEN <<>>
    ELSE LET tag == tags[1]
             cleaned_tag == strip(tag.s)
         IN IF tag.t # "str" THEN cleaned_tags(Tail(tags))
            ELSE IF cleaned_tag # <<>> /\ StrLen(cleaned_tag) <= MaxTagLen
            THEN <<cleaned_tag>> \o cleaned_tags(Tail(tags))
            ELSE cleaned_tags(Tail(tags))

\* A mutant: the second loop compares the tags as spelled.
RECURSIVE unique_tags_AsSpelled(_, _)
unique_tags_AsSpelled(tags, seen) ==
    IF tags = <<>> THEN <<>>
    ELSE IF tags[1] \notin seen
    THEN <<tags[1]>> \o unique_tags_AsSpelled(Tail(tags), seen \cup {tags[1]})
    ELSE unique_tags_AsSpelled(Tail(tags), seen)

\* the second loop: a tag is kept when its lower-case form was not seen
RECURSIVE unique_tags(_, _)
unique_tags(tags, seen) ==
    IF tags = <<>> THEN <<>>
    ELSE IF lower(tags[1]) \notin seen
    THEN <<tags[1]>> \o unique_tags(Tail(tags), seen \cup {lower(tags[1])})
    ELSE unique_tags(Tail(tags), seen)

\* utils.validators.validate_tags; v.present is false for None
validators_validate_tags(v) ==
    IF ~v.present \/ v.tags = <<>> THEN <<>>
    ELSE Take(unique_tags(cleaned_tags(v.tags), {}), MaxTags)

TagElements ==
    { Str(Lit(<<"a">>)), Str(Lit(<<"A">>)), Str(Lit(<<" ", "a">>)), Str(Lit(<<"b">>)),
      Str(Lit(<<"b", " ">>)), Str(<<>>), Str(Lit(<<" ">>)), Str(Lit(<<"a", " ", "b">>)),
      Str(Rep("a", MaxTagLen)), Str(Rep("A", MaxTagLen + 1)),
      Str(Cat(Rep(" ", 1), Rep("b", MaxTagLen))), NonStr }

ShortTagLists == UNION { [1 .. n -> TagElements] : n \in 0 .. MaxTagList }

\* n tags no two of which are equal in any case
ManyTags(n) == [i \in 1 .. n |-> Str(Rep("x", i))]

LongTagLists ==
    { s \o ManyTags(n) \o <<e>> :
        s \in [1 .. 1 -> TagElements], e \in TagElements,
        n \in (MaxTags - Margin) .. (MaxTags + Margin) }

ExampleTags == <<Str(Lit(<<"a">>)), Str(Lit(<<"A">>)), Str(Lit(<<"b">>)), Str(Lit(<<"b">>))>>

TagListInputs ==
    {[present |-> FALSE, tags |-> <<>>]}
    \cup { [present |-> TRUE, tags |-> l] : l \in ShortTagLists \cup LongTagLists \cup {ExampleTags} }

InitTags ==
    /\ arg \in TagListInputs
    /\ ret = Pending
    /\ AIIdle
    /\ APIIdle

ValidateTags ==
    /\ ret = Pending
    /\ ret' = [st |-> "done", out |-> validators_validate_tags(arg)]
    /\ UNCHANGED <<arg, aiVars, apiVars>>

\* the result handed in again, as a list of strings
RevalidateTags ==
    /\ ret # Pending
    /\ ret.st = "done"
    /\ ret' = [st |-> "again", first |-> ret.out,
               out |-> validators_validate_tags(
                          [present |-> TRUE,
                           tags |-> [i \in 1 .. Len(ret.out) |-> Str(ret.out[i])]])]
    /\ UNCHANGED <<arg, aiVars, apiVars>>

NextTags == ValidateTags \/ RevalidateTags

SpecTags == InitTags /\ [][NextTags]_vars

\* the entries of the list that can become a tag
Eligible(tags, i) ==
    /\ tags[i].t = "str"
    /\ strip(tags[i].s) # <<>>
    /\ StrLen(strip(tags[i].s)) <= MaxTagLen

\* the positions where a tag occurs for the first time in any case
FirstOccurrences(tags) ==
    { i \in 1 .. Len(tags) :
        /\ Eligible(tags, i)
        /\ \A j \in 1 .. (i - 1) :
              Eligible(tags, j) => lower(strip(tags[j].s)) # lower(strip(tags[i].s)) }

\* C28: validate_tags returns, for every input list, at most 10 tags, each
\* trimmed, non-empty and at most 50 characters long, no two equal when
\* compared without case, in the order of their first occurrence in the input
\* with the first-seen spelling; an absent or empty input gives the empty list.
C28_TagsCleaned ==
    (ret # Pending /\ ret.st = "done") =>
        LET out == ret.out
            first == FirstOccurrences(arg.tags)
        IN /\ Len(out) <= 10
           /\ \A k \in 1 .. Len(out) :
                 /\ out[k] = strip(out[k])
                 /\ out[k] # <<>>
                 /\ StrLen(out[k]) <= 50
           /\ \A k, l \in 1 .. Len(out) : lower(out[k]) = lower(out[l]) => k = l
           /\ Len(out) = (IF Cardinality(first) > 10 THEN 10 ELSE Cardinality(first))
           /\ \A k \in 1 .. Len(out) :
                 \E i \in first :
                    /\ Cardinality({ j \in first : j <= i }) = k
                    /\ out[k] = strip(arg.tags[i].s)
           /\ (~arg.present \/ arg.tags = <<>>) => out = <<>>

\* the example of the claim: ["a", "A", "b", "b"] gives ["a", "b"]
C28_Witness ==
    /\ ret # Pending
    /\ ret.st = "done"
    /\ arg.present
    /\ arg.tags = ExampleTags
    /\ ret.out = <<Lit(<<"a">>), Lit(<<"b">>)>>

\* cleaning a cleaned list changes nothing
C28_CleanedIsFixed ==
    (ret # Pending /\ ret.st = "again") => ret.out = ret.first
-----------------------------------------------------------------------------
(* SpecParse: OpenRouterClient._parse_json_response                        *)
(* (services/ai_service.py 160-182) on the content as text.  The JSON      *)
(* texts of the contents drawn here are a number written with the digit 1  *)
(* and the empty object, with white space around and inside the braces.    *)

MaxErrorChars == 200
MaxPieces == 5
MaxTailPieces == 1

\* the character a fence is made of
Backtick == "backtick"

\* content[:n]
RECURSIVE Slice(_, _)
Slice(s, n) ==
    IF s = <<>> \/ n <= 0 THEN <<>>
    ELSE IF s[1].n >= n THEN <<[ch |-> s[1].ch, n |-> n]>>
    ELSE <<s[1]>> \o Slice(Tail(s), n - s[1].n)

JsonValue(t, text) == [t |-> t, text |-> text]

JSONDecodeError == Err("JSONDecodeError", <<"Expecting value">>)

\* json.loads on these texts
json_loads(s) ==
    LET t == strip(s)
    IN IF Len(t) = 1 /\ t[1].ch = "1"
       THEN Ok(JsonValue("number", t))
       ELSE IF /\ Len(t) \in {2, 3}
               /\ t[1] = [ch |-> "{", n |-> 1]
               /\ t[Len(t)] = [ch |-> "}", n |-> 1]
               /\ \A i \in 2 .. (Len(t) - 1) : t[i].ch \in Whitespace
       THEN Ok(JsonValue("object", Lit(<<"{", "}">>)))
       ELSE JSONDecodeError

NoMatch == [found |-> FALSE, group |-> <<>>]
Match(group) == [found |-> TRUE, group |-> group]

MinOf(S) == CHOOSE x \in S : \A y \in S : x <= y

\* re.search(r'\{.*\}', content, re.DOTALL): greedy, from the first opening
\* brace to the last closing brace after it
json_match(content) ==
    LET opens == { i \in 1 .. Len(content) : content[i].ch = "{" }
        closes == { j \in 1 .. Len(content) : content[j].ch = "}" }
    IN IF opens = {} \/ closes = {} THEN NoMatch
       ELSE IF MinOf(opens) > MaxOf(closes) THEN NoMatch
       ELSE Match(SubSeq(content, MinOf(opens), MaxOf(closes)))

\* three backticks, as the last three of a longer run too
IsFence(r) == r.ch = Backtick /\ r.n >= 3

\* (?:json)? after the run at p: the number of runs the tag takes
TagRuns(s, p) ==
    IF p + 4 <= Len(s) /\ SubSeq(s, p + 1, p + 4) = Lit(<<"j", "s", "o", "n">>)
    THEN 4 ELSE 0

\* \s* from the run at i: the first run that is not white space
RECURSIVE SkipSpace(_, _)
SkipSpace(s, i) ==
    IF i <= Len(s) /\ s[i].ch \in Whitespace THEN SkipSpace(s, i + 1) ELSE i

\* where the group of the fenced pattern begins when the pattern is tried at
\* the fence p, 0 when no brace follows the fence, the tag and the white space
GroupStart(s, p) ==
    LET q == SkipSpace(s, p + 1 + TagRuns(s, p))
    IN IF q <= Len(s) /\ s[q].ch = "{" THEN q ELSE 0

\* the closing braces that white space and a fence follow
GroupEnds(s, q) ==
    { r \in (q + 1) .. Len(s) :
        /\ s[r].ch = "}"
        /\ LET e == SkipSpace(s, r + 1) IN e <= Len(s) /\ IsFence(s[e]) }

\* A mutant: the fenced pattern takes whatever stands between two fences.
code_block_match_AnyInterior(content) ==
    LET fences == { p \in 1 .. Len(content) : IsFence(content[p]) }
    IN IF Cardinality(fences) < 2 THEN NoMatch
       ELSE LET p == MinOf(fences)
                e == MinOf(fences \ {p})
            IN Match(SubSeq(content, p + 1 + TagRuns(content, p), e - 1))

\* re.search of the fenced pattern (line 173: a fence, an optional json tag,
\* white space, a lazy brace group, white space, a fence), re.DOTALL: the
\* leftmost fence the pattern matches at, and its group, which ends at the
\* first closing brace that white space and a fence follow
code_block_match(content) ==
    LET starts == { p \in 1 .. Len(content) :
                      /\ IsFence(content[p])
                      /\ GroupStart(content, p) # 0
                      /\ GroupEnds(content, GroupStart(content, p)) # {} }
    IN IF starts = {} THEN NoMatch
       ELSE LET q == GroupStart(content, MinOf(starts))
            IN Match(SubSeq(content, q, MinOf(GroupEnds(content, q))))

InvalidJSONResponse(content) ==
    Err("AIServiceError",
        [head |-> "Invalid JSON response from AI: ",
         content |-> Slice(content, MaxErrorChars),
         tail |-> "..."])

\* _parse_json_response on a text
parse_json_response_text(content) ==
    LET whole == json_loads(content)
        braces == json_match(content)
        fenced == code_block_match(content)
    IN IF whole.ok THEN whole
       ELSE IF braces.found /\ json_loads(braces.group).ok
       THEN json_loads(braces.group)
       ELSE IF fenced.found /\ json_loads(fenced.group).ok
       THEN json_loads(fenced.group)
       ELSE InvalidJSONResponse(content)

\* the pieces of a short content; the tag is plain text where no fence
\* comes before it
ContentPieces ==
    { Lit(<<"{">>), Lit(<<"}">>), Rep(Backtick, 3), Lit(<<"j", "s", "o", "n">>),
      Lit(<<" ">>), Lit(<<"1">>) }

RECURSIVE Join(_)
Join(ps) == IF ps = <<>> THEN <<>> ELSE Cat(ps[1], Join(Tail(ps)))

PieceLists(n) == UNION { [1 .. k -> ContentPieces] : k \in 0 .. n }

ShortContents == { Join(ps) : ps \in PieceLists(MaxPieces) }

\* contents around 200 characters long, text first
LongContents ==
    { Cat(Rep("x", n), Join(ps)) :
        n \in (MaxErrorChars - Margin) .. (MaxErrorChars + Margin),
        ps \in PieceLists(MaxTailPieces) }

InitParse ==
    /\ arg \in ShortContents \cup LongContents
    /\ ret = Pending
    /\ AIIdle
    /\ APIIdle

ParseResponse ==
    /\ ret = Pending
    /\ ret' = [st |-> "done", out |-> parse_json_response_text(arg)]
    /\ UNCHANGED <<arg, aiVars, apiVars>>

NextParse == ParseResponse

SpecParse == InitParse /\ [][NextParse]_vars

\* the three stages as stated: the whole content, the span from the first
\* opening brace to the last closing brace, the interior of the first fenced
\* block
StageWhole(content) == json_loads(content)
StageBraces(content) ==
    IF json_match(content).found
    THEN json_loads(json_match(content).group) ELSE JSONDecodeError
StageFenced(content) ==
    IF code_block_match_AnyInterior(content).found
    THEN json_loads(code_block_match_AnyInterior(content).group) ELSE JSONDecodeError

Parsed == ret # Pending /\ ret.st = "done"

\* C29: _parse_json_response returns the result of the first of three stages
\* that parses, (a) the whole content, (b) the span from the first '{' to the
\* last '}', (c) the interior of a fenced code block optionally tagged json,
\* and when all three fail raises an AIServiceError whose message holds
\* "Invalid JSON response" and the first 200 characters of the content.
C29_FirstStageThatParses ==
    Parsed =>
        IF StageWhole(arg).ok THEN ret.out = StageWhole(arg)
        ELSE IF StageBraces(arg).ok THEN ret.out = StageBraces(arg)
        ELSE IF StageFenced(arg).ok THEN ret.out = StageFenced(arg)
        ELSE /\ ~ret.out.ok
             /\ ret.out.err.type = "AIServiceError"
             /\ ret.out.err.text.head = "Invalid JSON response from AI: "
             /\ ret.out.err.text.content = Slice(arg, 200)

\* the brace-delimited spans a fence, an optional json tag and white space
\* come before and white space and a fence come after
FencedSpans(content) ==
    { span \in (1 .. Len(content)) \X (1 .. Len(content)) :
        \E p \in 1 .. Len(content) :
            /\ IsFence(content[p])
            /\ span[1] = GroupStart(content, p)
            /\ span[2] \in GroupEnds(content, span[1]) }

InvalidJSONRaised(content, out) ==
    /\ ~out.ok
    /\ out.err.type = "AIServiceError"
    /\ out.err.text.head = "Invalid JSON response from AI: "
    /\ out.err.text.content = Slice(content, 200)
    /\ StrLen(out.err.text.content) <= 200

\* what holds of the three stages: the first two are as stated; the third
\* parses a brace-delimited span that stands between fences, never a fenced
\* value without braces; when no stage parses the error names the content
C29_ThreeStagesAmended ==
    Parsed =>
        IF StageWhole(arg).ok THEN ret.out = StageWhole(arg)
        ELSE IF StageBraces(arg).ok THEN ret.out = StageBraces(arg)
        ELSE /\ ret.out.ok =>
                  \E span \in FencedSpans(arg) :
                      ret.out = json_loads(SubSeq(arg, span[1], span[2]))
             /\ (/\ FencedSpans(arg) # {}
                 /\ \A span \in FencedSpans(arg) :
                       json_loads(SubSeq(arg, span[1], span[2])).ok) => ret.out.ok
             /\ ~ret.out.ok => InvalidJSONRaised(arg, ret.out)

\* a fenced number: the third stage as stated would return it
C29_FencedNumberRaises ==
    (Parsed /\ arg = Join(<<Rep(Backtick, 3), Lit(<<"1">>), Rep(Backtick, 3)>>)) =>
        /\ StageFenced(arg).ok
        /\ InvalidJSONRaised(arg, ret.out)

\* the third stage is reached and returns
C29_FencedReturned ==
    /\ Parsed
    /\ ~StageWhole(arg).ok
    /\ ~StageBraces(arg).ok
    /\ ret.out.ok
-----------------------------------------------------------------------------
(* SpecFailures: analyze_feedback (services/ai_service.py 30-67) against a *)
(* gateway whose replies fail in every way a call can fail: a reply        *)
(* without choices, without the message key, without the content key, with *)
(* a null content, a content that is no JSON, JSON that is no object, an   *)
(* object the schema rejects, an HTTP error, a network error.  The model   *)
(* list is the shipped one or the one with the commented-out entry of line *)
(* 34 restored.                                                            *)

ListedModels ==
    { ShippedModels, <<"openai/gpt-3.5-turbo", "qwen/qwen3-235b-a22b-07-25:free">> }

FailureSentimentReplies ==
    { JsonReply(SentimentJson("positive", 95)),
      JsonReply(SentimentJson("mixed", 50)),
      JsonReply(JsonArray),
      NoKeyReply, NoContentReply, NullContentReply, GarbageReply, NoChoicesReply }

FailureCategoryReplies ==
    { JsonReply(CategoryJson(Lit(<<"U", "X">>), 88)),
      JsonReply(CategoryJson(<<>>, 50)),
      JsonReply(JsonArray),
      NoKeyReply, HttpReply(500), NetworkReply }

InitFailures ==
    /\ models \in ListedModels
    /\ gateway \in [1 .. Len(models) ->
                      [sentiment : FailureSentimentReplies, category : FailureCategoryReplies]]
    /\ pos = 1
    /\ pc = "loop"
    /\ calls = <<>>
    /\ gatherExc = None
    /\ last_error = None
    /\ result = [kind |-> "running"]
    /\ arg = None
    /\ ret = Pending
    /\ APIIdle

SpecFailures == InitFailures /\ [][NextShipped]_vars

ResultKeys ==
    {"sentiment", "sentiment_confidence", "category", "category_confidence", "model_used"}

\* the errors of an attempt that are not the client's own
ForeignErrors == {"KeyError", "TypeError", "ValidationError"}

\* C30: analyze_feedback finishes in exactly one of two ways: it returns a
\* result with the five keys sentiment, sentiment_confidence, category,
\* category_confidence and model_used, or it raises an AIServiceError; a
\* missing message or content key, JSON that is no object and a schema
\* failure are converted to that error, and no run returns nothing.
C30_ReturnsOrRaises ==
    pc = "done" =>
        /\ result.kind \in {"return", "raise"}
        /\ result.kind = "return" =>
              /\ DOMAIN result.value = ResultKeys
              /\ AttemptSucceeds(pos)
        /\ result.kind = "raise" =>
              /\ result.error.type = "AIServiceError"
              /\ Contains(result.error.text, "All models failed. Last error: ")
              /\ Embeds(result.error.text, last_error.text)
              /\ ~AttemptSucceeds(pos)

\* a run that ends on an error that is not the client's own
C30_Witness ==
    /\ pc = "done"
    /\ result.kind = "raise"
    /\ last_error # None
    /\ last_error.type \in ForeignErrors
    /\ result.error.type = "AIServiceError"

\* each of the foreign errors ends a run of the last model
C30_EachFailureConverted ==
    \A p \in 1 .. Len(calls) :
        (/\ pc = "done"
         /\ calls[p].pos = pos
         /\ calls[p].st = "failed"
         /\ last_error = calls[p].out.err) => result.kind = "raise"
-----------------------------------------------------------------------------
(* The routes' claims                                                      *)

\* C3: a POST /analyze that ends in an error response (503 or 500) leaves
\* storage holding exactly the entries it held before the request, whichever
\* step failed (classification, commit, refresh after commit, building the
\* response).
C3_FailedAnalyzeStoresNothing ==
    [][(resp'.op = "analyze" /\ resp'.status \in {500, 503}) => db' = db]_vars

\* C5: a request the schema rejects (422) on POST /analyze or PUT /{id}/tags
\* has no side effect: no gateway call is issued, storage is unchanged.
C5_RejectedRequestHasNoEffect ==
    [][(resp'.op \in {"analyze", "put"} /\ resp'.status = 422) =>
          (db' = db /\ gwCalls' = 0)]_vars

\* a rejected tag update has been answered while storage holds an entry
C5_Witness ==
    /\ resp.op = "put"
    /\ resp.status = 422
    /\ DOMAIN db # {}

\* the text the client gives the cause of a failed call, where it is fixed
CauseText(reply) ==
    CASE reply = HttpReply(429) -> <<"Rate limit exceeded. Please try again later.">>
      [] reply = HttpReply(401) -> <<"Invalid API key">>
      [] reply.kind = "http" -> <<"AI service error: ", StatusText(reply.status)>>
      [] reply.kind = "network" -> <<"Network error: ", reply.detail>>
      [] reply.kind = "nochoices" -> <<"Invalid response from AI service">>
      [] reply = GarbageReply -> <<"Invalid JSON response from AI: ">>
      [] OTHER -> <<>>

\* C6: POST /analyze answers 503, with a message describing the cause,
\* whenever classification fails for a gateway reason (429, 401, another
\* non-2xx, network failure, missing choices, unparsable or schema-invalid
\* output, model list exhausted); it answers 500 with a generic message for
\* any other failure, and never 200 after a failed classification.
C6_AnalyzeStatus ==
    (resp.op = "analyze" /\ resp.status # 422) =>
        LET sc == resp.req.sc
            failed == ({sc.sentiment} \cap FailingSentimentReplies)
                        \cup ({sc.category} \cap FailingCategoryReplies)
        IN /\ failed # {} =>
                /\ resp.status = 503
                /\ resp.body.shape = "detail"
                /\ Contains(resp.body.detail, "All models failed. Last error: ")
                /\ Len(resp.body.detail) >= 2
                /\ \E r \in failed : Embeds(resp.body.detail, CauseText(r))
           /\ (failed = {} /\ sc.io # "ok") =>
                /\ resp.status = 500
                /\ resp.body = Detail(<<"Internal server error">>)
           /\ (failed = {} /\ sc.io = "ok") => resp.status = 200

\* a model output that parses but fails the schema has been answered
C6_Witness ==
    /\ resp.op = "analyze"
    /\ resp.status = 503
    /\ resp.req.sc.sentiment = JsonReply(SentimentJson("mixed", 50))

\* C7: every error response of every route has the uniform body
\* {error, message, details}: a typed application error with its declared
\* status and code (VALIDATION_ERROR 422, AI_SERVICE_ERROR 503, NOT_FOUND 404,
\* RATE_LIMIT_EXCEEDED 429), an untyped failure with status 500, error
\* "INTERNAL_ERROR", message "An unexpected error occurred", empty details.
C7_UniformErrorBody ==
    resp.status >= 400 =>
        /\ resp.body.shape = "error"
        /\ resp.body.error =
              CASE resp.status = 422 -> "VALIDATION_ERROR"
                [] resp.status = 503 -> "AI_SERVICE_ERROR"
                [] resp.status = 404 -> "NOT_FOUND"
                [] resp.status = 429 -> "RATE_LIMIT_EXCEEDED"
                [] OTHER -> "INTERNAL_ERROR"
        /\ resp.body.error = "INTERNAL_ERROR" =>
              /\ resp.status = 500
              /\ resp.body.message = "An unexpected error occurred"
              /\ resp.body.details = <<>>

\* C7, amended: the errors a feedback route raises itself (404, and POST
\* /analyze's 503 and 500) and the schema's rejections (422) have the body
\* {detail}; only a failure that leaves a handler untyped has the uniform
\* body, with status 500, error "INTERNAL_ERROR", message "An unexpected
\* error occurred" and empty details.
C7_ErrorBodies ==
    resp.status >= 400 =>
        /\ resp.status \in {404, 422, 500, 503}
        /\ (resp.status \in {404, 422, 503} \/ resp.op = "analyze") =>
              /\ resp.body.shape = "detail"
              /\ resp.status = 404 => resp.body.detail = <<"Feedback not found">>
        /\ (resp.status = 500 /\ resp.op # "analyze") =>
              /\ resp.req.io # "ok"
              /\ resp.body = ErrorResponseBody("INTERNAL_ERROR",
                                               "An unexpected error occurred", <<>>)

\* a storage failure during a DELETE has been answered
C7_Witness ==
    /\ resp.op = "delete"
    /\ resp.status = 500
    /\ resp.req.io = "commit"

\* C8: GET of an id with no stored entry answers 404 "Feedback not found";
\* after a successful DELETE of an existing id, the next GET, PUT tags or
\* DELETE of that id answers 404; the delete removes no other entry.
C8_NotFoundAfterDelete ==
    /\ [](  (resp.op = "get" /\ resp.req.io = "ok") =>
              IF resp.req.id \in DOMAIN db
              THEN resp.status = 200
              ELSE resp.status = 404 /\ resp.body = Detail(<<"Feedback not found">>))
    /\ [][ /\ (resp'.op = "delete" /\ resp'.status = 200) =>
                /\ resp'.req.id \in DOMAIN db
                /\ DOMAIN db' = DOMAIN db \ {resp'.req.id}
                /\ \A i \in DOMAIN db' : db'[i] = db[i]
           /\ (/\ resp.op = "delete" /\ resp.status = 200
               /\ resp' # resp
               /\ resp'.op \in {"get", "put", "delete"}
               /\ resp'.req.id = resp.req.id
               /\ resp'.req.io = "ok"
               /\ resp'.status # 422) =>
                /\ resp'.status = 404
                /\ resp'.body = Detail(<<"Feedback not found">>) ]_vars

\* a deleted id has been asked for while a later entry is still stored
C8_Witness ==
    /\ resp.op = "get"
    /\ resp.status = 404
    /\ \E j \in DOMAIN db : j > resp.req.id

\* the tag list needs no cleaning: trimmed, non-empty, distinct, at most 10
CleanList(tags) ==
    /\ Len(tags) <= MaxTags
    /\ NoRepeats(tags)
    /\ \A i \in 1 .. Len(tags) : tags[i] # <<>> /\ strip(tags[i]) = tags[i]

\* C9: PUT /{id}/tags on an existing entry sets the stored and the returned
\* tags to exactly the request's list, same elements in the same order
\* (stated here for the lists that need no cleaning).
C9_TagsSetExactly ==
    (resp.op = "put" /\ resp.status = 200 /\ CleanList(resp.req.tags)) =>
        /\ resp.body.tags = resp.req.tags
        /\ db[resp.req.id].tags = resp.req.tags

====
